---- MODULE Spec2Model ----
(***************************************************************************)
(* Email content normalization and deduplication fingerprinting engine.   *)
(*                                                                         *)
(* Text is modelled at character level: a text is a sequence of           *)
(* characters and a character is a one-element string ("a", " ", "\n").   *)
(* The non-ASCII characters the code names are written as named           *)
(* characters ("<ZWSP>", "<ENDASH>", ...).  Regular expressions are       *)
(* modelled by matchers that compute what Python's re module computes on  *)
(* such sequences (leftmost match, greedy quantifiers, backtracking).     *)
(* SHA-256 is modelled as an injective tagging of the hashed text.        *)
(***************************************************************************)
EXTENDS Integers, Sequences, FiniteSets, TLC

(***************************************************************************)
(* Characters                                                              *)
(***************************************************************************)
LowerLetters ==
  <<"a","b","c","d","e","f","g","h","i","j","k","l","m",
    "n","o","p","q","r","s","t","u","v","w","x","y","z">>

UpperLetters ==
  <<"A","B","C","D","E","F","G","H","I","J","K","L","M",
    "N","O","P","Q","R","S","T","U","V","W","X","Y","Z">>

LowerSet == {LowerLetters[i] : i \in 1..26}

UpperSet == {UpperLetters[i] : i \in 1..26}

Digits == {"0","1","2","3","4","5","6","7","8","9"}

Letters == LowerSet \cup UpperSet

Alnum == Letters \cup Digits

\* Python's \s and str.isspace() on the characters of the model.
Space == {" ", "\t", "\n", "\r", "<NBSP>"}

\* Python's \w: letters, digits, underscore (and non-ASCII letters).
WordCh == Alnum \cup {"_", "<eacute>", "<agrave>", "<EACUTE>", "<AGRAVE>"}

\* str.lower() of one character.
LowerCh(c) ==
  IF c \in UpperSet
    THEN LowerLetters[CHOOSE i \in 1..26 : UpperLetters[i] = c]
  ELSE IF c = "<EACUTE>" THEN "<eacute>"
  ELSE IF c = "<AGRAVE>" THEN "<agrave>"
  ELSE c

\* str.lower()
Lower(s) == [i \in 1..Len(s) |-> LowerCh(s[i])]

(***************************************************************************)
(* String helpers                                                          *)
(***************************************************************************)
\* The character at position i, or "" beyond either end.
At(s, i) == IF i >= 1 /\ i <= Len(s) THEN s[i] ELSE ""

\* s[i..] starts with the literal lit.
Lit(s, i, lit) ==
  /\ i >= 1
  /\ i + Len(lit) - 1 <= Len(s)
  /\ \A k \in 1..Len(lit) : s[i + k - 1] = lit[k]

\* The least position in lo..hi whose character's membership in Class is
\* member, or 0 (found by halving the range).
RECURSIVE FirstWhere(_, _, _, _, _)
FirstWhere(s, lo, hi, Class, member) ==
  IF lo > hi THEN 0
  ELSE IF lo = hi THEN IF (s[lo] \in Class) = member THEN lo ELSE 0
  ELSE LET mid == (lo + hi) \div 2
           l == FirstWhere(s, lo, mid, Class, member)
       IN  IF l > 0 THEN l ELSE FirstWhere(s, mid + 1, hi, Class, member)

\* The greatest such position, or 0.
RECURSIVE LastWhere(_, _, _, _, _)
LastWhere(s, lo, hi, Class, member) ==
  IF lo > hi THEN 0
  ELSE IF lo = hi THEN IF (s[lo] \in Class) = member THEN lo ELSE 0
  ELSE LET mid == (lo + hi) \div 2
           r == LastWhere(s, mid + 1, hi, Class, member)
       IN  IF r > 0 THEN r ELSE LastWhere(s, lo, mid, Class, member)

\* Greedy run of a character class: the first position >= i whose character
\* is not in Class (Len(s)+1 when the run reaches the end).
RunEnd(s, i, Class) ==
  LET k == FirstWhere(s, i, Len(s), Class, FALSE)
  IN  IF i > Len(s) THEN i ELSE IF k = 0 THEN Len(s) + 1 ELSE k

\* Greedy run of the complement of a character class.
RunEndNot(s, i, Class) ==
  LET k == FirstWhere(s, i, Len(s), Class, TRUE)
  IN  IF i > Len(s) THEN i ELSE IF k = 0 THEN Len(s) + 1 ELSE k

\* s[from .. to-1]
Slice(s, from, to) == SubSeq(s, from, to - 1)

\* The least position in lo..hi where the pattern matches, or 0; MatchEnd(s, i)
\* is the end (exclusive) of the match starting at i, or 0 when the pattern
\* does not match at i.
RECURSIVE FirstMatch(_, _, _, _)
FirstMatch(MatchEnd(_, _), s, lo, hi) ==
  IF lo > hi THEN 0
  ELSE IF lo = hi THEN IF MatchEnd(s, lo) > 0 THEN lo ELSE 0
  ELSE LET mid == (lo + hi) \div 2
           l == FirstMatch(MatchEnd, s, lo, mid)
       IN  IF l > 0 THEN l ELSE FirstMatch(MatchEnd, s, mid + 1, hi)

\* re.search from position i: the leftmost position where the pattern
\* matches, or 0.
SearchFrom(MatchEnd(_, _), s, i) == FirstMatch(MatchEnd, s, i, Len(s))

Search(MatchEnd(_, _), s) == SearchFrom(MatchEnd, s, 1)

\* re.sub(pattern, repl, s) for a pattern that never matches the empty
\* string: the text from i on with every leftmost match replaced.
RECURSIVE SubFrom(_, _, _, _)
SubFrom(MatchEnd(_, _), repl, s, i) ==
  LET k == SearchFrom(MatchEnd, s, i)
  IN  IF k = 0 THEN SubSeq(s, i, Len(s))
      ELSE SubSeq(s, i, k - 1) \o repl \o SubFrom(MatchEnd, repl, s, MatchEnd(s, k))

ReSub(MatchEnd(_, _), repl, s) == SubFrom(MatchEnd, repl, s, 1)

\* The least position in lo..hi where the literal occurs, or 0.
RECURSIVE FirstLitIn(_, _, _, _)
FirstLitIn(s, lo, hi, lit) ==
  IF lo > hi THEN 0
  ELSE IF lo = hi THEN IF Lit(s, lo, lit) THEN lo ELSE 0
  ELSE LET mid == (lo + hi) \div 2
           l == FirstLitIn(s, lo, mid, lit)
       IN  IF l > 0 THEN l ELSE FirstLitIn(s, mid + 1, hi, lit)

\* The first position >= from where the literal occurs, or 0.
FirstLit(s, from, lit) == FirstLitIn(s, from, Len(s) - Len(lit) + 1, lit)

\* str.replace(old, new) for a non-empty old
RECURSIVE ReplaceFrom(_, _, _, _)
ReplaceFrom(old, new, s, i) ==
  LET k == FirstLit(s, i, old)
  IN  IF k = 0 THEN SubSeq(s, i, Len(s))
      ELSE SubSeq(s, i, k - 1) \o new \o ReplaceFrom(old, new, s, k + Len(old))

Replace(s, old, new) == ReplaceFrom(old, new, s, 1)

\* str.strip()
Strip(s) ==
  LET i == RunEnd(s, 1, Space)
      j == LastWhere(s, 1, Len(s), Space, FALSE)
  IN  IF i > j THEN <<>> ELSE SubSeq(s, i, j)

\* str.split('\n'): the sequence of lines from position start on.
RECURSIVE SplitFrom(_, _)
SplitFrom(s, start) ==
  LET k == FirstLit(s, start, <<"\n">>)
  IN  IF k = 0 THEN <<SubSeq(s, start, Len(s))>>
      ELSE <<Slice(s, start, k)>> \o SplitFrom(s, k + 1)

SplitLines(s) == SplitFrom(s, 1)

\* sep.join(parts)
RECURSIVE Join(_, _)
Join(sep, parts) ==
  IF Len(parts) = 0 THEN <<>>
  ELSE IF Len(parts) = 1 THEN parts[1]
  ELSE parts[1] \o sep \o Join(sep, Tail(parts))

(***************************************************************************)
(* ContentNormalizer (email_normalization.py)                              *)
(***************************************************************************)
\* The word boundary \b at position i (between s[i-1] and s[i]).
WordBoundary(s, i) == (At(s, i - 1) \in WordCh) # (At(s, i) \in WordCh)

\* [a-zA-Z0-9-]
HostCh == Alnum \cup {"-"}

\* r'\?utm_[^&\s]+=[^&\s]+' and r'&utm_[^&\s]+=[^&\s]+': after the prefix, a
\* run of characters other than & and whitespace that holds a "=" with at
\* least one character of the run on either side; the greedy match takes the
\* whole run.
UtmEnd(prefix, s, i) ==
  IF ~Lit(s, i, prefix) THEN 0
  ELSE LET p == i + Len(prefix)
           e == RunEndNot(s, p, Space \cup {"&"})
       IN  IF \E q \in (p + 1)..(e - 2) : s[q] = "=" THEN e ELSE 0

tracking_utm_q(s, i) == UtmEnd(<<"?","u","t","m","_">>, s, i)

tracking_utm_amp(s, i) == UtmEnd(<<"&","u","t","m","_">>, s, i)

\* A literal followed by a non-empty greedy run of a class.
LitRunEnd(lit, Class, s, i) ==
  IF ~Lit(s, i, lit) THEN 0
  ELSE LET p == i + Len(lit)
           e == RunEnd(s, p, Class)
       IN  IF e > p THEN e ELSE 0

\* r'/track/click/[a-zA-Z0-9]+'
tracking_click(s, i) ==
  LitRunEnd(<<"/","t","r","a","c","k","/","c","l","i","c","k","/">>, Alnum, s, i)

\* r'/pixel\.gif\?[^"\s]+'
tracking_pixel(s, i) ==
  LET lit == <<"/","p","i","x","e","l",".","g","i","f","?">>
  IN  IF ~Lit(s, i, lit) THEN 0
      ELSE LET p == i + Len(lit)
               e == RunEndNot(s, p, Space \cup {"\""})
           IN  IF e > p THEN e ELSE 0

\* r'mailtrack\.io/trace/[a-zA-Z0-9]+'
tracking_mailtrack(s, i) ==
  LitRunEnd(<<"m","a","i","l","t","r","a","c","k",".","i","o",
              "/","t","r","a","c","e","/">>, Alnum, s, i)

\* for pattern in self.tracking_patterns: normalized = re.sub(pattern, '', normalized)
tracking_patterns(s) ==
  LET s1 == ReSub(tracking_utm_q, <<>>, s)
      s2 == ReSub(tracking_utm_amp, <<>>, s1)
      s3 == ReSub(tracking_click, <<>>, s2)
      s4 == ReSub(tracking_pixel, <<>>, s3)
  IN  ReSub(tracking_mailtrack, <<>>, s4)

\* (?:\.[a-zA-Z0-9-]+)* from position e.
RECURSIVE HostLabels(_, _)
HostLabels(s, e) ==
  IF At(s, e) = "." /\ At(s, e + 1) \in HostCh
    THEN HostLabels(s, RunEnd(s, e + 1, HostCh))
    ELSE e

\* url_pattern:
\*   https?://(?:www\.)?[a-zA-Z0-9-]+(?:\.[a-zA-Z0-9-]+)*
\*   (?:/[^?\s]*)?(?:\?[^#\s]*)?(?:#[^\s]*)?
url_pattern(s, i) ==
  LET http == <<"h","t","t","p">>
      sep  == <<":","/","/">>
      p == IF Lit(s, i, http) /\ Lit(s, i + 4, sep) THEN i + 7
           ELSE IF Lit(s, i, http) /\ At(s, i + 4) = "s" /\ Lit(s, i + 5, sep)
                THEN i + 8
           ELSE 0
  IN  IF p = 0 THEN 0
      ELSE LET h == IF Lit(s, p, <<"w","w","w",".">>) /\ At(s, p + 4) \in HostCh
                      THEN p + 4 ELSE p
           IN  IF At(s, h) \notin HostCh THEN 0
               ELSE LET e1 == HostLabels(s, RunEnd(s, h, HostCh))
                        e2 == IF At(s, e1) = "/"
                                THEN RunEndNot(s, e1 + 1, Space \cup {"?"})
                                ELSE e1
                        e3 == IF At(s, e2) = "?"
                                THEN RunEndNot(s, e2 + 1, Space \cup {"#"})
                                ELSE e2
                    IN  IF At(s, e3) = "#"
                          THEN RunEndNot(s, e3 + 1, Space)
                          ELSE e3

URL == <<"[","U","R","L","]">>

EMAIL == <<"[","E","M","A","I","L","]">>

\* email_pattern: \b[A-Za-z0-9._%+-]+@[A-Za-z0-9.-]+\.[A-Z|a-z]{2,}\b
\* The local part is the whole run up to "@".  The domain run is taken
\* greedily and given back until a "." is followed by two or more
\* characters of [A-Z|a-z] that end at a word boundary: the last such "."
\* and, for it, the longest such ending.
EmailLocalCh == Alnum \cup {".", "_", "%", "+", "-"}

EmailDomainCh == Alnum \cup {".", "-"}

EmailTldCh == Letters \cup {"|"}

email_pattern(s, i) ==
  IF ~(WordBoundary(s, i) /\ At(s, i) \in EmailLocalCh) THEN 0
  ELSE LET r == RunEnd(s, i, EmailLocalCh)
       IN  IF At(s, r) # "@" THEN 0
           ELSE LET d == RunEnd(s, r + 1, EmailDomainCh)
                    Ends(q) == {e \in (q + 3)..RunEnd(s, q + 1, EmailTldCh) :
                                  WordBoundary(s, e)}
                    Dots == {q \in (r + 2)..(d - 1) : s[q] = "." /\ Ends(q) # {}}
                IN  IF Dots = {} THEN 0
                    ELSE LET q == CHOOSE x \in Dots : \A y \in Dots : y <= x
                         IN  CHOOSE e \in Ends(q) : \A f \in Ends(q) : f <= e

\* zero_width_chars
zero_width_chars == {"<ZWSP>", "<ZWNJ>", "<ZWJ>", "<BOM>"}

RemoveChars(s, Class) == SelectSeq(s, LAMBDA c : c \notin Class)

\* whitespace_pattern.sub(' ', s): r'\s+'
whitespace_pattern(s, i) ==
  LET e == RunEnd(s, i, Space) IN IF e > i THEN e ELSE 0

CollapseWhitespace(s) == ReSub(whitespace_pattern, <<" ">>, s)

\* lines = [self.whitespace_pattern.sub(' ', line.strip()) for line in lines]
NormalizeLines(lines) ==
  [k \in 1..Len(lines) |-> CollapseWhitespace(Strip(lines[k]))]

\* Step 5 of normalize: per line when the structure is preserved, else the
\* whole text collapsed.
normalize_whitespace(s, preserve_structure) ==
  IF preserve_structure
    THEN Join(<<"\n">>, NormalizeLines(SplitLines(s)))
    ELSE CollapseWhitespace(s)

\* The keys of the variations dict as Python reads them.  The first key is
\* the triple-quoted string that the quote runs of lines 90 and 91 delimit;
\* the double quote maps to itself.
SmartSingleKey ==
  <<":"," ","\"","'","\"",",", " "," ","#"," ",
    "S","m","a","r","t"," ","s","i","n","g","l","e"," ",
    "q","u","o","t","e","s","\n",
    " "," "," "," "," "," "," "," "," "," "," "," ">>

variations(s) ==
  LET v1 == Replace(s, SmartSingleKey, <<"'">>)
      v2 == Replace(v1, <<"\"">>, <<"\"">>)
      v3 == Replace(v2, <<"<ENDASH>">>, <<"-">>)
      v4 == Replace(v3, <<"<EMDASH>">>, <<"-">>)
  IN  Replace(v4, <<"<ELLIPSIS>">>, <<".", ".", ".">>)

\* ContentNormalizer.normalize(text, preserve_structure)
normalize(text, preserve_structure) ==
  IF Len(text) = 0 THEN <<>>
  ELSE Strip(variations(normalize_whitespace(
         RemoveChars(
           ReSub(email_pattern, EMAIL,
                 ReSub(url_pattern, URL, tracking_patterns(Lower(text)))),
           zero_width_chars),
         preserve_structure)))

(***************************************************************************)
(* AdvancedContentParser (email_deduplication_complete.py)                 *)
(***************************************************************************)
\* Python's None where a text is optional.  No text holds this character.
None == <<"<None>">>

\* Python truthiness of an optional text: neither None nor "".
Truthy(x) == x # None /\ Len(x) > 0

\* [-─━═]
DashCh == {"-", "<BOXLIGHT>", "<BOXHEAVY>", "<BOXDOUBLE>"}

\* r'[-─━═]{3,}\s*W1\s+W2\s*[-─━═]{3,}' on the lower-cased text (the
\* patterns are searched with re.IGNORECASE).
BannerEnd(w1, w2, ls, i) ==
  LET r == RunEnd(ls, i, DashCh)
      a == RunEnd(ls, r, Space)
      b == a + Len(w1)
      c == RunEnd(ls, b, Space)
      d == RunEnd(ls, c + Len(w2), Space)
      e == RunEnd(ls, d, DashCh)
  IN  IF /\ r - i >= 3
         /\ Lit(ls, a, w1)
         /\ c > b
         /\ Lit(ls, c, w2)
         /\ e - d >= 3
        THEN e ELSE 0

w_forwarded == <<"f","o","r","w","a","r","d","e","d">>

w_message == <<"m","e","s","s","a","g","e">>

\* r'[-─━═]{3,}\s*Forwarded\s+[Mm]essage\s*[-─━═]{3,}'
forward_standard(ls, i) == BannerEnd(w_forwarded, w_message, ls, i)

\* r'Begin\s+forwarded\s+message:'
forward_apple(ls, i) ==
  LET a == i + 5
      b == RunEnd(ls, a, Space)
      c == b + 9
      d == RunEnd(ls, c, Space)
  IN  IF /\ Lit(ls, i, <<"b","e","g","i","n">>)
         /\ b > a
         /\ Lit(ls, b, w_forwarded)
         /\ d > c
         /\ Lit(ls, d, w_message \o <<":">>)
        THEN d + 8 ELSE 0

\* r'------\s*Original\s+Message\s*------'
forward_outlook(ls, i) ==
  LET six == <<"-","-","-","-","-","-">>
      a == RunEnd(ls, i + 6, Space)
      b == a + 8
      c == RunEnd(ls, b, Space)
      d == RunEnd(ls, c + 7, Space)
  IN  IF /\ Lit(ls, i, six)
         /\ Lit(ls, a, <<"o","r","i","g","i","n","a","l">>)
         /\ c > b
         /\ Lit(ls, c, w_message)
         /\ Lit(ls, d, six)
        THEN d + 6 ELSE 0

\* r'_{10,}\s*From:.*?Sent:.*?To:.*?Subject:' (re.DOTALL: .*? crosses lines)
forward_outlook_verbose(ls, i) ==
  LET r == RunEnd(ls, i, {"_"})
      a == RunEnd(ls, r, Space)
      f == <<"f","r","o","m",":">>
      p1 == IF r - i >= 10 /\ Lit(ls, a, f)
              THEN FirstLit(ls, a + 5, <<"s","e","n","t",":">>) ELSE 0
      p2 == IF p1 > 0 THEN FirstLit(ls, p1 + 5, <<"t","o",":">>) ELSE 0
      p3 == IF p2 > 0
              THEN FirstLit(ls, p2 + 3, <<"s","u","b","j","e","c","t",":">>)
              ELSE 0
  IN  IF p3 > 0 THEN p3 + 8 ELSE 0

\* r'[-─━═]{3,}\s*Message\s+transféré\s*[-─━═]{3,}'
forward_french(ls, i) ==
  BannerEnd(w_message, <<"t","r","a","n","s","f","<eacute>","r","<eacute>">>, ls, i)

\* r'[-─━═]{3,}\s*Mensaje\s+reenviado\s*[-─━═]{3,}'
forward_spanish(ls, i) ==
  BannerEnd(<<"m","e","n","s","a","j","e">>,
            <<"r","e","e","n","v","i","a","d","o">>, ls, i)

\* r'[-─━═]{3,}\s*Weitergeleitete\s+Nachricht\s*[-─━═]{3,}'
forward_german(ls, i) ==
  BannerEnd(<<"w","e","i","t","e","r","g","e","l","e","i","t","e","t","e">>,
            <<"n","a","c","h","r","i","c","h","t">>, ls, i)

\* The span of the first of the seven patterns, given where each one first
\* matches in the lower-cased text (0: nowhere).
PatternSpan(ls, m1, m2, m3, m4, m5, m6, m7) ==
  IF m1 > 0 THEN <<m1, forward_standard(ls, m1)>>
  ELSE IF m2 > 0 THEN <<m2, forward_apple(ls, m2)>>
  ELSE IF m3 > 0 THEN <<m3, forward_outlook(ls, m3)>>
  ELSE IF m4 > 0 THEN <<m4, forward_outlook_verbose(ls, m4)>>
  ELSE IF m5 > 0 THEN <<m5, forward_french(ls, m5)>>
  ELSE IF m6 > 0 THEN <<m6, forward_spanish(ls, m6)>>
  ELSE IF m7 > 0 THEN <<m7, forward_german(ls, m7)>>
  ELSE <<0, 0>>

\* re.search of each forward pattern over the lower-cased text.
FirstPattern(ls) ==
  PatternSpan(ls, Search(forward_standard, ls), Search(forward_apple, ls),
              Search(forward_outlook, ls), Search(forward_outlook_verbose, ls),
              Search(forward_french, ls), Search(forward_spanish, ls),
              Search(forward_german, ls))

\* for pattern, name in self.forward_patterns: match = re.search(pattern, ...)
\* The first pattern of the list that matches anywhere decides; the result
\* is <<match.start(), match.end()>> as positions (end exclusive), <<0, 0>>
\* when no pattern matches.
forward_patterns(content) == FirstPattern(Lower(content))

\* re.match(r'On\s+.+?,\s+.+?\s+wrote:', line, re.IGNORECASE): whether the
\* line (lower-cased) matches from its start.  "." matches whitespace too,
\* so each \s+ may be taken as one character.
reply_gmail(ll) ==
  /\ Lit(ll, 1, <<"o","n">>)
  /\ At(ll, 3) \in Space
  /\ \E c \in 5..Len(ll) :
       /\ ll[c] = ","
       /\ At(ll, c + 1) \in Space
       /\ \E x \in (c + 4)..Len(ll) :
            ll[x - 1] \in Space /\ Lit(ll, x, <<"w","r","o","t","e",":">>)

\* re.match(r'Le\s+.+?\s+à\s+.+?,\s+.+?\s+a\s+écrit\s*:', line, re.IGNORECASE)
reply_french(ll) ==
  /\ Lit(ll, 1, <<"l","e">>)
  /\ At(ll, 3) \in Space
  /\ \E q \in 6..Len(ll) :
       /\ ll[q] = "<agrave>"
       /\ ll[q - 1] \in Space
       /\ At(ll, q + 1) \in Space
       /\ \E c \in (q + 3)..Len(ll) :
            /\ ll[c] = ","
            /\ At(ll, c + 1) \in Space
            /\ \E y \in (c + 4)..Len(ll) :
                 /\ ll[y] = "a"
                 /\ ll[y - 1] \in Space
                 /\ LET z == RunEnd(ll, y + 1, Space)
                        t == RunEnd(ll, z + 5, Space)
                    IN  /\ z > y + 1
                        /\ Lit(ll, z, <<"<eacute>","c","r","i","t">>)
                        /\ At(ll, t) = ":"

\* re.match(r'Am\s+.+?\s+um\s+.+?\s+schrieb\s+.+?:', line, re.IGNORECASE)
reply_german(ll) ==
  /\ Lit(ll, 1, <<"a","m">>)
  /\ At(ll, 3) \in Space
  /\ \E u \in 6..Len(ll) :
       /\ Lit(ll, u, <<"u","m">>)
       /\ ll[u - 1] \in Space
       /\ At(ll, u + 2) \in Space
       /\ \E v \in (u + 5)..Len(ll) :
            /\ Lit(ll, v, <<"s","c","h","r","i","e","b">>)
            /\ ll[v - 1] \in Space
            /\ At(ll, v + 7) \in Space
            /\ \E x \in (v + 9)..Len(ll) : ll[x] = ":"

\* any(re.match(pattern, line, re.IGNORECASE) for pattern in reply_patterns)
AnyReply(ll) == reply_gmail(ll) \/ reply_french(ll) \/ reply_german(ll)

reply_patterns(line) == AnyReply(Lower(line))

\* The whitespace run that starts at position p holds a newline.
NewlineInRun(s, p) == \E n \in p..(RunEnd(s, p, Space) - 1) : s[n] = "\n"

\* r'--\s*\n'
signature_dashes(ls, i) ==
  IF Lit(ls, i, <<"-","-">>) /\ NewlineInRun(ls, i + 2) THEN i + 3 ELSE 0

\* r'W,?\s*\n' for a closing word W
CloserEnd(w, ls, i) ==
  LET p == i + Len(w)
  IN  IF /\ Lit(ls, i, w)
         /\ \/ At(ls, p) = "," /\ NewlineInRun(ls, p + 1)
            \/ NewlineInRun(ls, p)
        THEN p + 1 ELSE 0

\* r'Best,?\s*\n'
signature_best(ls, i) == CloserEnd(<<"b","e","s","t">>, ls, i)

\* r'Regards,?\s*\n'
signature_regards(ls, i) == CloserEnd(<<"r","e","g","a","r","d","s">>, ls, i)

sent_from_my == <<"s","e","n","t"," ","f","r","o","m"," ","m","y"," ">>

\* r'Sent from my iPhone'
signature_iphone(ls, i) ==
  IF Lit(ls, i, sent_from_my \o <<"i","p","h","o","n","e">>) THEN i + 19 ELSE 0

\* r'Sent from my Android'
signature_android(ls, i) ==
  IF Lit(ls, i, sent_from_my \o <<"a","n","d","r","o","i","d">>) THEN i + 20 ELSE 0

\* The leftmost start among the five patterns, given where each one first
\* matches (0: nowhere).
LeftmostSignatureStart(m1, m2, m3, m4, m5) ==
  IF {m \in {m1, m2, m3, m4, m5} : m > 0} = {} THEN 0
  ELSE CHOOSE m \in {m1, m2, m3, m4, m5} :
         m > 0 /\ \A n \in {m1, m2, m3, m4, m5} : n > 0 => m <= n

\* The start of the first of the five patterns, given where each one first
\* matches (0: nowhere).
SignatureStart(m1, m2, m3, m4, m5) ==
  IF m1 > 0 THEN m1
  ELSE IF m2 > 0 THEN m2
  ELSE IF m3 > 0 THEN m3
  ELSE IF m4 > 0 THEN m4
  ELSE m5

\* re.search of each signature pattern over the lower-cased text.
FirstSignature(ls) ==
  SignatureStart(Search(signature_dashes, ls), Search(signature_best, ls),
                 Search(signature_regards, ls), Search(signature_iphone, ls),
                 Search(signature_android, ls))

\* for pattern in self.signature_patterns: match = re.search(pattern, content,
\* re.MULTILINE | re.IGNORECASE): match.start() of the first pattern of the
\* list that matches, or 0.
signature_patterns(content) == FirstSignature(Lower(content))

\* The content with its signature left in place.
KeepSignature(content) == content

\* AdvancedContentParser._remove_signatures
CutAt(content, m) == IF m > 0 THEN Strip(Slice(content, 1, m)) ELSE content

_remove_signatures(content) ==
  IF Len(content) = 0 THEN content ELSE CutAt(content, signature_patterns(content))

\* AdvancedContentParser._is_meaningful
_is_meaningful(content) == Len(content) > 0 /\ Len(Strip(content)) > 0

\* re.search(r'\bPHRASE\b', s) (endB) or re.search(r'\bPHRASE', s)
HasPhrase(s, lit, endB) ==
  \E i \in 1..Len(s) :
    /\ WordBoundary(s, i)
    /\ Lit(s, i, lit)
    /\ endB => WordBoundary(s, i + Len(lit))

\* len(s.split()): the number of maximal runs of non-whitespace characters.
WordCount(s) ==
  Cardinality({i \in 1..Len(s) : s[i] \notin Space /\ (i = 1 \/ s[i - 1] \in Space)})

\* intent_patterns in the dict's order over the lower-cased content, then
\* the word-count fallback.
intent_patterns(n) ==
  IF HasPhrase(n, <<"f","y","i">>, TRUE) THEN "information_sharing"
  ELSE IF HasPhrase(n, <<"f","o","r"," ","y","o","u","r"," ",
                         "i","n","f","o","r","m","a","t","i","o","n">>, TRUE)
    THEN "information_sharing"
  ELSE IF HasPhrase(n, <<"h","e","a","d","s"," ","u","p">>, TRUE)
    THEN "information_sharing"
  ELSE IF HasPhrase(n, <<"t","h","o","u","g","h","t","s","?">>, FALSE)
    THEN "seeking_input"
  ELSE IF HasPhrase(n, <<"w","h","a","t"," ","d","o"," ","y","o","u"," ",
                         "t","h","i","n","k">>, FALSE)
    THEN "seeking_opinion"
  ELSE IF HasPhrase(n, <<"y","o","u","r"," ","o","p","i","n","i","o","n">>, FALSE)
    THEN "seeking_opinion"
  ELSE IF HasPhrase(n, <<"p","l","e","a","s","e"," ","a","d","v","i","s","e">>, FALSE)
    THEN "seeking_advice"
  ELSE IF HasPhrase(n, <<"p","l","e","a","s","e"," ","r","e","v","i","e","w">>, TRUE)
    THEN "action_required"
  ELSE IF HasPhrase(n, <<"a","c","t","i","o","n"," ",
                         "r","e","q","u","i","r","e","d">>, TRUE)
    THEN "action_required"
  ELSE IF HasPhrase(n, <<"c","a","n"," ","y","o","u">>, TRUE) THEN "request"
  ELSE IF HasPhrase(n, <<"u","r","g","e","n","t">>, TRUE) THEN "urgent_forward"
  ELSE IF HasPhrase(n, <<"a","s","a","p">>, TRUE) THEN "urgent_forward"
  ELSE IF WordCount(n) >= 2 THEN "comment"
  ELSE IF WordCount(n) = 1 THEN "brief_comment"
  ELSE "None"

\* AdvancedContentParser._detect_intent: the intent of the first pattern of
\* intent_patterns (in the dict's order) found in the lower-cased content,
\* else by word count.  Intents are labels; "None" stands for None.
_detect_intent(content) ==
  IF Len(content) = 0 THEN "None" ELSE intent_patterns(Lower(content))

\* ParsedEmail(...) of the forward and reply branches, new_content being
\* the signature-stripped text.  parsing_confidence is in hundredths (0.9
\* is 90).
ParsedSplit(type, new_content, quoted, confidence) ==
  [type |-> type,
   new_content |-> IF Len(new_content) > 0 THEN new_content ELSE None,
   quoted_content |-> quoted,
   new_content_meaningful |-> _is_meaningful(new_content),
   new_content_intent |-> _detect_intent(new_content),
   parsing_confidence |-> confidence]

\* The last line, from line i on, that matches a reply pattern (0: none).
RECURSIVE LastReplyLine(_, _)
LastReplyLine(lines, i) ==
  IF i > Len(lines) THEN 0
  ELSE IF LastReplyLine(lines, i + 1) > 0 THEN LastReplyLine(lines, i + 1)
  ELSE IF reply_patterns(lines[i]) THEN i
  ELSE 0

\* The index of the first line that matches a reply pattern, or 0.
RECURSIVE FirstReplyLine(_, _)
FirstReplyLine(lines, i) ==
  IF i > Len(lines) THEN 0
  ELSE IF reply_patterns(lines[i]) THEN i
  ELSE FirstReplyLine(lines, i + 1)

\* parse_email_structure from "lines = content.split('\n')" on, i being the
\* first line that matches a reply pattern (0: none).
ParseReply(content, lines, i) ==
  IF i > 0
    THEN ParsedSplit("reply",
                     _remove_signatures(Strip(Join(<<"\n">>, SubSeq(lines, 1, i - 1)))),
                     Strip(Join(<<"\n">>, SubSeq(lines, i, Len(lines)))),
                     85)
  ELSE [type |-> "original",
        new_content |-> _remove_signatures(content),
        quoted_content |-> None,
        new_content_meaningful |-> TRUE,
        new_content_intent |-> "original_message",
        parsing_confidence |-> 95]

\* parse_email_structure's forward branch for the match span fm.
ParseForward(content, fm) ==
  ParsedSplit("forward",
              _remove_signatures(Strip(Slice(content, 1, fm[1]))),
              Strip(SubSeq(content, fm[2], Len(content))),
              90)

\* parse_email_structure of a non-empty content, fm being the span of the
\* first forward pattern (<<0, 0>>: none).
ParseMarked(content, fm) ==
  IF fm[1] > 0 THEN ParseForward(content, fm)
  ELSE ParseReply(content, SplitLines(content),
                  FirstReplyLine(SplitLines(content), 1))

\* AdvancedContentParser.parse_email_structure
parse_email_structure(content) ==
  IF Len(content) = 0
    THEN [type |-> "empty", new_content |-> None, quoted_content |-> None,
          new_content_meaningful |-> FALSE, new_content_intent |-> "None",
          parsing_confidence |-> 100]
  ELSE ParseMarked(content, forward_patterns(content))

(***************************************************************************)
(* HTML to text (email_deduplication_complete.py)                          *)
(*                                                                         *)
(* HTMLParser is Python's library; the HTML bodies of the model are text   *)
(* and attribute-less tags (<p>, </p>, <script>, ...), on which its events *)
(* are start tag, end tag and the text between two tags, and the content   *)
(* of script and style elements is delivered as text while current_tag     *)
(* stays the element.                                                      *)
(***************************************************************************)
skip_tags == {<<"s","c","r","i","p","t">>, <<"s","t","y","l","e">>,
              <<"m","e","t","a">>, <<"l","i","n","k">>}

block_tags == {<<"p">>, <<"d","i","v">>, <<"b","r">>, <<"h","1">>, <<"h","2">>,
               <<"h","3">>, <<"h","4">>, <<"h","5">>, <<"h","6">>,
               <<"l","i">>, <<"t","r">>}

\* HTMLParser's CDATA_CONTENT_ELEMENTS
cdata_elements == {<<"s","c","r","i","p","t">>, <<"s","t","y","l","e">>}

\* re.sub(r'<!--.*?-->', '', html, flags=re.DOTALL)
html_comment(s, i) ==
  IF ~Lit(s, i, <<"<","!","-","-">>) THEN 0
  ELSE LET c == FirstLit(s, i + 4, <<"-","-",">">>)
       IN  IF c > 0 THEN c + 3 ELSE 0

\* The parser state while feeding: text_parts, current_tag and the CDATA
\* element the parser is inside of (None outside).
\* handle_starttag / handle_endtag: a line break around block elements.
BlockBreak(tag, parts) ==
  IF tag \in block_tags /\ Len(parts) > 0 /\ parts[Len(parts)] # <<"\n">>
    THEN Append(parts, <<"\n">>) ELSE parts

\* handle_data
handle_data(data, current_tag, parts) ==
  IF current_tag \notin skip_tags /\ Len(Strip(data)) > 0
    THEN parts \o <<Strip(data), <<" ">>>>
    ELSE parts

\* _markupbase.ParserBase.parse_marked_section raises AssertionError on
\* "<![" that is followed by no name token or by an unknown status keyword
\* (a name that runs to the end of the input is incomplete and does not raise).
ParserError == <<"<AssertionError>">>

marked_section_keywords ==
  {<<"t","e","m","p">>, <<"c","d","a","t","a">>, <<"i","g","n","o","r","e">>,
   <<"i","n","c","l","u","d","e">>, <<"r","c","d","a","t","a">>,
   <<"i","f">>, <<"e","l","s","e">>, <<"e","n","d","i","f">>}

MarkedSectionRaises(s, i) ==
  /\ Lit(s, i, <<"<","!","[">>)
  /\ i + 3 <= Len(s)
  /\ LET e == RunEnd(s, i + 3, Alnum \cup {"-", "_", "."})
         w == RunEnd(s, e, Space)
     IN  \/ s[i + 3] \notin Letters
         \/ /\ w <= Len(s)
            /\ Lower(Slice(s, i + 3, e)) \notin marked_section_keywords

\* r']\s*>' (Microsoft conditional sections) and r']\s*]\s*>' at position k
ms_section_close(s, k) ==
  IF At(s, k) = "]" /\ At(s, RunEnd(s, k + 1, Space)) = ">"
    THEN RunEnd(s, k + 1, Space) + 1 ELSE 0

section_close(s, k) ==
  IF At(s, k) = "]" /\ At(s, RunEnd(s, k + 1, Space)) = "]"
    THEN LET g == RunEnd(s, RunEnd(s, k + 1, Space) + 1, Space)
         IN  IF At(s, g) = ">" THEN g + 1 ELSE 0
    ELSE 0

\* Where the marked section that starts at i ends, or 0 when it is incomplete
\* (the parser then waits for more input and the rest of the markup is lost).
MarkedSectionEnd(s, i) ==
  LET e == RunEnd(s, i + 3, Alnum \cup {"-", "_", "."})
      w == RunEnd(s, e, Space)
      ms == Lower(Slice(s, i + 3, e)) \in {<<"i","f">>, <<"e","l","s","e">>, <<"e","n","d","i","f">>}
      k == IF ms THEN SearchFrom(ms_section_close, s, i + 3)
           ELSE SearchFrom(section_close, s, i + 3)
  IN  IF i + 3 > Len(s) \/ w > Len(s) \/ k = 0 THEN 0
      ELSE IF ms THEN ms_section_close(s, k) ELSE section_close(s, k)

\* parser.feed(html): the events from position i on, for markup made of
\* texts, tags of the form <name> and </name>, and marked sections; the
\* result is text_parts, or <<ParserError>> when the parser raises.
RECURSIVE Feed(_, _, _, _, _)
Feed(s, i, parts, current_tag, cdata) ==
  IF i > Len(s) THEN parts
  ELSE IF s[i] # "<"
    THEN LET e == RunEndNot(s, i, {"<"})
         IN  Feed(s, e, handle_data(Slice(s, i, e), current_tag, parts),
                  current_tag, cdata)
  ELSE IF cdata = None /\ MarkedSectionRaises(s, i) THEN <<ParserError>>
  ELSE IF cdata = None /\ Lit(s, i, <<"<","!","[">>)
    THEN LET k == MarkedSectionEnd(s, i)
         IN  IF k = 0 THEN parts ELSE Feed(s, k, parts, current_tag, cdata)
  ELSE LET closing == At(s, i + 1) = "/"
           n == IF closing THEN i + 2 ELSE i + 1
           e == RunEnd(s, n, Alnum)
           tag == Lower(Slice(s, n, e))
       IN  IF cdata # None /\ ~(closing /\ tag = cdata)
             THEN Feed(s, e + 1, parts, current_tag, cdata)
           ELSE IF closing
             THEN Feed(s, e + 1, BlockBreak(tag, parts), None, None)
           ELSE Feed(s, e + 1, BlockBreak(tag, parts), tag,
                     IF tag \in cdata_elements THEN tag ELSE None)

\* re.sub(r'\n\s*\n+', '\n\n', text): a newline, then the whitespace run up
\* to and with its last newline.
blank_lines(s, i) ==
  IF At(s, i) # "\n" THEN 0
  ELSE LET e == RunEnd(s, i + 1, Space)
           N == {k \in (i + 1)..(e - 1) : s[k] = "\n"}
       IN  IF N = {} THEN 0
           ELSE (CHOOSE k \in N : \A j \in N : j <= k) + 1

\* re.sub(r' +', ' ', text)
spaces(s, i) == LET e == RunEnd(s, i, {" "}) IN IF e > i THEN e ELSE 0

\* HTMLTextExtractor.get_text
get_text(parts) ==
  Strip(ReSub(spaces, <<" ">>,
              ReSub(blank_lines, <<"\n", "\n">>, Join(<<>>, parts))))

\* re.sub(r'<[^>]+>', ' ', html)
any_tag(s, i) ==
  IF At(s, i) # "<" THEN 0
  ELSE LET e == RunEndNot(s, i + 1, {">"})
       IN  IF e > i + 1 /\ At(s, e) = ">" THEN e + 1 ELSE 0

\* html_to_text(html_content): html.unescape is the identity on markup
\* without "&"; when the parser raises, the except branch strips the tags
\* of the markup (its comments already removed).
ExtractedText(html, text_parts) ==
  IF text_parts = <<ParserError>>
    THEN Strip(CollapseWhitespace(ReSub(any_tag, <<" ">>, html)))
    ELSE get_text(text_parts)

FeedAll(html) == ExtractedText(html, Feed(html, 1, <<>>, None, None))

html_to_text(html_content) ==
  IF Len(html_content) = 0 THEN <<>>
  ELSE FeedAll(ReSub(html_comment, <<>>, html_content))

(***************************************************************************)
(* EmailAliasResolver (email_deduplication_complete.py)                    *)
(***************************************************************************)
Chars(s) == {s[i] : i \in 1..Len(s)}

\* The position of the last c in s, or 0.
LastIndex(s, c) ==
  IF c \in Chars(s) THEN CHOOSE i \in 1..Len(s) : s[i] = c /\ \A j \in (i + 1)..Len(s) : s[j] # c
  ELSE 0

\* The position of the first c in s, or 0.
FirstIndex(s, c) ==
  IF c \in Chars(s) THEN CHOOSE i \in 1..Len(s) : s[i] = c /\ \A j \in 1..(i - 1) : s[j] # c
  ELSE 0

d_gmail == <<"g","m","a","i","l",".","c","o","m">>

d_googlemail == <<"g","o","o","g","l","e","m","a","i","l",".","c","o","m">>

d_yahoo == <<"y","a","h","o","o",".","c","o","m">>

d_protonmail == <<"p","r","o","t","o","n","m","a","i","l",".","c","o","m">>

\* self.domain_rules.get(domain, {}).get(rule, False) for the rules resolve reads
ignore_dots(domain) == domain \in {d_gmail, d_googlemail, d_protonmail}

preserve_plus(domain) == domain = d_protonmail

remove_dash_suffix(domain) == domain = d_yahoo

\* plus_pattern: r'\+[^@]+'
plus_pattern(s, i) ==
  IF At(s, i) # "+" THEN 0
  ELSE LET e == RunEndNot(s, i + 1, {"@"}) IN IF e > i + 1 THEN e ELSE 0

\* r'-[^@]+$'
dash_suffix(s, i) ==
  IF At(s, i) = "-" /\ i < Len(s) /\ RunEndNot(s, i + 1, {"@"}) = Len(s) + 1
    THEN Len(s) + 1 ELSE 0

\* alias_patterns: (r'^(w1|w2|...)@', replacement)
primary_words == <<<<"s","u","p","p","o","r","t">>, <<"h","e","l","p">>,
                   <<"c","o","n","t","a","c","t">>, <<"i","n","f","o">>,
                   <<"h","e","l","l","o">>, <<"a","d","m","i","n">>>>

noreply_words == <<<<"n","o","r","e","p","l","y">>, <<"n","o","-","r","e","p","l","y">>,
                   <<"d","o","n","o","t","r","e","p","l","y">>>>

\* notifications? | alerts? | updates?
notification_words ==
  <<<<"n","o","t","i","f","i","c","a","t","i","o","n","s">>,
    <<"n","o","t","i","f","i","c","a","t","i","o","n">>,
    <<"a","l","e","r","t","s">>, <<"a","l","e","r","t">>,
    <<"u","p","d","a","t","e","s">>, <<"u","p","d","a","t","e">>>>

primary_at == <<"p","r","i","m","a","r","y","@">>

automated_at == <<"a","u","t","o","m","a","t","e","d","@">>

\* The length of the prefix "w@" of s for the first word w of words that s
\* starts with, or 0.
PrefixLen(words, s) ==
  LET K == {k \in 1..Len(words) : Lit(s, 1, words[k] \o <<"@">>)}
  IN  IF K = {} THEN 0
      ELSE Len(words[CHOOSE k \in K : \A j \in K : k <= j]) + 1

alias_patterns(reconstructed) ==
  LET p1 == PrefixLen(primary_words, reconstructed)
      p2 == PrefixLen(noreply_words, reconstructed)
      p3 == PrefixLen(notification_words, reconstructed)
      rest(p) == SubSeq(reconstructed, p + 1, Len(reconstructed))
  IN  IF p1 > 0 THEN primary_at \o rest(p1)
      ELSE IF p2 > 0 THEN automated_at \o rest(p2)
      ELSE IF p3 > 0 THEN automated_at \o rest(p3)
      ELSE reconstructed

\* EmailAliasResolver.resolve (the function the lru_cache memoizes)
\* if not rules.get('preserve_plus', False): local = plus_pattern.sub('', local)
PlusRule(local, domain) ==
  IF preserve_plus(domain) THEN local ELSE ReSub(plus_pattern, <<>>, local)

\* The local part with its dots left in place.
KeepDots(local, domain) == local

\* if rules.get('ignore_dots', False): local = local.replace('.', '')
DotRule(local, domain) ==
  IF ignore_dots(domain) THEN RemoveChars(local, {"."}) ELSE local

\* if rules.get('remove_dash_suffix', False): local = re.sub(r'-[^@]+$', '', local)
DashRule(local, domain) ==
  IF remove_dash_suffix(domain) THEN ReSub(dash_suffix, <<>>, local) ELSE local

\* local, domain = email.rsplit('@', 1), then the domain rules in order
Reconstructed(local, domain) ==
  DashRule(DotRule(PlusRule(local, domain), domain), domain) \o <<"@">> \o domain

RSplit(e, at) == Reconstructed(Slice(e, 1, at), SubSeq(e, at + 1, Len(e)))

ResolveLower(e) == alias_patterns(RSplit(e, LastIndex(e, "@")))

resolve(email) ==
  IF Len(email) = 0 \/ "@" \notin Chars(email) THEN email
  ELSE ResolveLower(Strip(Lower(email)))

(***************************************************************************)
(* CompleteEmailFingerprinter (email_deduplication_complete.py)            *)
(***************************************************************************)
\* hashlib.sha256(content).hexdigest(), as an injective tagging: the two
\* bracket characters occur in no text that is hashed.
_hash(content) == <<"<sha256(">> \o content \o <<")>">>

\* r'^(re:\s*|fwd?:\s*|fw:\s*)+' on the lower-cased subject: the end of the
\* prefix run that starts at i.
RECURSIVE PrefixRun(_, _)
PrefixRun(ls, i) ==
  LET n == IF Lit(ls, i, <<"r","e",":">>) THEN 3
           ELSE IF Lit(ls, i, <<"f","w","d",":">>) THEN 4
           ELSE IF Lit(ls, i, <<"f","w",":">>) THEN 3
           ELSE 0
  IN  IF n = 0 THEN i ELSE PrefixRun(ls, RunEnd(ls, i + n, Space))

\* r'\[.*?\]' and r'\(.*?\)': from the opening character to the first closing
\* one, with no newline between ("." does not match a newline).
Bracketed(open, close, s, i) ==
  IF At(s, i) # open THEN 0
  ELSE LET e == RunEndNot(s, i + 1, {close, "\n"})
       IN  IF At(s, e) = close THEN e + 1 ELSE 0

square_tag(s, i) == Bracketed("[", "]", s, i)

round_tag(s, i) == Bracketed("(", ")", s, i)

\* CompleteEmailFingerprinter._extract_thread_subject; None is no subject.
_extract_thread_subject(subject) ==
  IF ~Truthy(subject) THEN <<>>
  ELSE LET p == PrefixRun(Lower(subject), 1)
           s1 == SubSeq(subject, p, Len(subject))
           s2 == ReSub(round_tag, <<>>, ReSub(square_tag, <<>>, s1))
       IN  Lower(Strip(CollapseWhitespace(s2)))

\* CompleteEmailFingerprinter._extract_domain: email.lower().split('@')[1].strip()
_extract_domain(email) ==
  IF ~Truthy(email) \/ "@" \notin Chars(email) THEN <<>>
  ELSE LET l == Lower(email)
           a == FirstIndex(l, "@")
           rest == SubSeq(l, a + 1, Len(l))
           b == FirstIndex(rest, "@")
       IN  Strip(IF b > 0 THEN Slice(rest, 1, b) ELSE rest)

\* Unicode code point order of the characters of the model.
CharOrder ==
  <<"\t","\n","\r"," ","!","\"","#","$","%","&","'","(",")","*","+",",","-",".","/",
    "0","1","2","3","4","5","6","7","8","9",":",";","<","=",">","?","@",
    "A","B","C","D","E","F","G","H","I","J","K","L","M",
    "N","O","P","Q","R","S","T","U","V","W","X","Y","Z",
    "[","\\","]","^","_",
    "a","b","c","d","e","f","g","h","i","j","k","l","m",
    "n","o","p","q","r","s","t","u","v","w","x","y","z",
    "{","|","}","~","<NBSP>","<AGRAVE>","<EACUTE>","<agrave>","<eacute>",
    "<ZWSP>","<ZWNJ>","<ZWJ>","<ENDASH>","<EMDASH>","<LSQUO>","<RSQUO>",
    "<LDQUO>","<RDQUO>","<ELLIPSIS>","<BOXLIGHT>","<BOXHEAVY>","<BOXDOUBLE>","<BOM>">>

CodePoint(c) == CHOOSE i \in 1..Len(CharOrder) : CharOrder[i] = c

\* a <= b in Python's string order
StrLE(a, b) ==
  LET n == IF Len(a) < Len(b) THEN Len(a) ELSE Len(b)
      D == {k \in 1..n : a[k] # b[k]}
      d == CHOOSE k \in D : \A j \in D : k <= j
  IN  IF D = {} THEN Len(a) <= Len(b)
      ELSE CodePoint(a[d]) < CodePoint(b[d])

\* sorted(S) of a set of strings
RECURSIVE Sorted(_)
Sorted(S) ==
  IF S = {} THEN <<>>
  ELSE LET m == CHOOSE x \in S : \A y \in S : StrLE(x, y)
       IN  <<m>> \o Sorted(S \ {m})

\* A key that the email_data dict does not hold.
Missing == <<"<missing>">>

\* email_data.get(key, default)
Get(email_data, key, default) ==
  IF email_data[key] = Missing THEN default ELSE email_data[key]

\* str(n) of a natural number
RECURSIVE IntText(_)
IntText(n) ==
  LET d == <<"0","1","2","3","4","5","6","7","8","9">>[(n % 10) + 1]
  IN  IF n < 10 THEN <<d>> ELSE IntText(n \div 10) \o <<d>>

\* json.dumps of a str (ensure_ascii): quotes, backslashes and control
\* characters are escaped; a non-ASCII character becomes a backslash-u escape,
\* written here with the character's name in place of its four hex digits.
json_char(c) ==
  IF c = "\"" THEN <<"\\", "\"">>
  ELSE IF c = "\\" THEN <<"\\", "\\">>
  ELSE IF c = "\n" THEN <<"\\", "n">>
  ELSE IF c = "\t" THEN <<"\\", "t">>
  ELSE IF c = "\r" THEN <<"\\", "r">>
  ELSE IF CodePoint(c) > CodePoint("~") THEN <<"\\", "u", c>>
  ELSE <<c>>

RECURSIVE json_escape(_, _, _)
json_escape(s, lo, hi) ==
  IF lo > hi THEN <<>>
  ELSE IF lo = hi THEN json_char(s[lo])
  ELSE LET mid == (lo + hi) \div 2
       IN  json_escape(s, lo, mid) \o json_escape(s, mid + 1, hi)

json_str(s) == <<"\"">> \o json_escape(s, 1, Len(s)) \o <<"\"">>

json_bool(b) == IF b THEN <<"t","r","u","e">> ELSE <<"f","a","l","s","e">>

\* The parser's type names as text.
type_text(type) ==
  CASE type = "forward" -> <<"f","o","r","w","a","r","d">>
    [] type = "reply" -> <<"r","e","p","l","y">>
    [] type = "original" -> <<"o","r","i","g","i","n","a","l">>
    [] type = "empty" -> <<"e","m","p","t","y">>

\* json.dumps(structure, sort_keys=True)
json_dumps(structure) ==
  <<"{">>
  \o <<"\"","a","t","t","a","c","h","m","e","n","t","_","c","o","u","n","t","\"",":"," ">>
  \o IntText(structure.attachment_count)
  \o <<",", " ", "\"","h","a","s","_","a","t","t","a","c","h","m","e","n","t","s","\"",":"," ">>
  \o json_bool(structure.has_attachments)
  \o <<",", " ", "\"","h","a","s","_","n","e","w","_","c","o","n","t","e","n","t","\"",":"," ">>
  \o json_bool(structure.has_new_content)
  \o <<",", " ", "\"","s","e","n","d","e","r","_","d","o","m","a","i","n","\"",":"," ">>
  \o json_str(structure.sender_domain)
  \o <<",", " ", "\"","s","u","b","j","e","c","t","_","b","a","s","e","\"",":"," ">>
  \o json_str(structure.subject_base)
  \o <<",", " ", "\"","t","y","p","e","\"",":"," ">>
  \o json_str(type_text(structure.type))
  \o <<"}">>

\* CompleteEmailFingerprinter._generate_structure_hash
_generate_structure_hash(email_data, parsed) ==
  _hash(json_dumps(
    [type |-> parsed.type,
     subject_base |-> _extract_thread_subject(Get(email_data, "subject", <<>>)),
     sender_domain |-> _extract_domain(Get(email_data, "sender_email", <<>>)),
     has_attachments |-> email_data.has_attachments,
     attachment_count |-> email_data.attachment_count,
     has_new_content |-> parsed.new_content_meaningful]))

p_gmail_thread == <<"g","m","a","i","l","_","t","h","r","e","a","d",":">>

p_message_id == <<"m","e","s","s","a","g","e","_","i","d",":">>

p_in_reply_to == <<"i","n","_","r","e","p","l","y","_","t","o",":">>

p_ref_first == <<"r","e","f","_","f","i","r","s","t",":">>

p_ref_last == <<"r","e","f","_","l","a","s","t",":">>

p_references == <<"r","e","f","e","r","e","n","c","e","s",":">>

p_fallback == <<"f","a","l","l","b","a","c","k",":">>

p_sender == <<"s","e","n","d","e","r",":">>

\* The thread_elements list before sorted(); the references field is
\* [is_list, items]: a list of texts, or one text when is_list is FALSE.
thread_elements(email_data) ==
  LET refs == email_data.references
      thread_id == Get(email_data, "thread_id", None)
      message_id == Get(email_data, "message_id", None)
      in_reply_to == Get(email_data, "in_reply_to", None)
      headers ==
        (IF Truthy(thread_id) THEN {p_gmail_thread \o thread_id} ELSE {})
        \cup (IF Truthy(message_id) THEN {p_message_id \o message_id} ELSE {})
        \cup (IF Truthy(in_reply_to) THEN {p_in_reply_to \o in_reply_to} ELSE {})
        \cup (IF refs.is_list /\ Len(refs.items) > 0
           THEN {p_ref_first \o refs.items[1]} ELSE {})
        \cup (IF refs.is_list /\ Len(refs.items) > 1
           THEN {p_ref_last \o refs.items[Len(refs.items)]} ELSE {})
        \cup (IF ~refs.is_list /\ Len(refs.items) = 1 /\ Len(refs.items[1]) > 0
           THEN {p_references \o refs.items[1]} ELSE {})
      subject == _extract_thread_subject(Get(email_data, "subject", <<>>))
      sender_domain == _extract_domain(Get(email_data, "sender_email", <<>>))
  IN  IF headers # {} THEN headers
      ELSE IF Len(subject) > 0 /\ Len(sender_domain) > 0
        THEN {p_fallback \o subject \o <<":">> \o sender_domain}
      ELSE {}

\* CompleteEmailFingerprinter._generate_thread_hash
_generate_thread_hash(email_data) ==
  _hash(Join(<<"|">>, Sorted(thread_elements(email_data))))

\* The resolved recipients of one field, each with its place in the list.
NumberedRecipients(field) ==
  {IntText(k) \o resolve(field.items[k]) :
     k \in {j \in 1..Len(field.items) : Len(field.items[j]) > 0}}

\* The recipients of one field that are resolved: a str field is one
\* recipient, empty recipients are skipped.
FieldRecipients(field) ==
  {resolve(field.items[k]) : k \in {j \in 1..Len(field.items) : Len(field.items[j]) > 0}}

\* CompleteEmailFingerprinter._generate_recipient_hash
all_recipients(email_data, sender) ==
  FieldRecipients(email_data.recipient_emails)
  \cup FieldRecipients(email_data.cc_emails)
  \cup FieldRecipients(email_data.bcc_emails)
  \cup (IF Truthy(sender) THEN {p_sender \o resolve(sender)} ELSE {})

_generate_recipient_hash(email_data) ==
  _hash(Join(<<"|">>,
             Sorted(all_recipients(email_data,
                                   Get(email_data, "sender_email", <<>>)))))

\* valid_hashes = [h for h in hashes if h]
valid_hashes(hashes) == SelectSeq(hashes, Truthy)

\* A composite hash that covers the full-content hash alone.
_generate_composite_hash_of_content(hashes) == _hash(hashes[3])

\* CompleteEmailFingerprinter._generate_composite_hash
_generate_composite_hash(hashes) == _hash(Join(<<"|">>, valid_hashes(hashes)))

\* email_data.get('body_text', '').strip() and the same for body_html raise
\* AttributeError on a None body; the HTML body is read only when the text
\* body is blank.
BodyRaises(email_data) ==
  LET body_text == Get(email_data, "body_text", <<>>)
  IN  \/ body_text = None
      \/ /\ Len(Strip(body_text)) = 0
         /\ Get(email_data, "body_html", <<>>) = None

\* CompleteEmailFingerprinter._extract_content, for bodies that do not raise
_extract_content(email_data) ==
  LET body_text == Strip(Get(email_data, "body_text", <<>>))
      body_html == Strip(Get(email_data, "body_html", <<>>))
  IN  IF Len(body_text) > 0 THEN body_text
      ELSE IF Len(body_html) > 0 THEN html_to_text(body_html)
      ELSE <<>>

\* fingerprint_version=4
fingerprint_version == 4

\* What a call that raised gives in place of a text it would return, and in
\* place of a fingerprint.
AttributeError == <<"<AttributeError>">>

Raised == [raised |-> AttributeError]

\* hashlib of a normalized part, None when it normalized to nothing
HashOrNone(normalized) == IF Len(normalized) > 0 THEN _hash(normalized) ELSE None

\* hash of normalize(part) when both the part and its normalization are non-empty
PartHash(part) ==
  IF ~Truthy(part) THEN None ELSE HashOrNone(normalize(part, FALSE))

\* content_source = 'text' if email_data.get('body_text', '').strip() else 'html'
content_source(email_data) ==
  IF Len(Strip(Get(email_data, "body_text", <<>>))) > 0 THEN "text" ELSE "html"

\* CompleteEmailFingerprint(...) for the six hashes in the order
\* new, quoted, full, structure, thread, recipient
CompleteEmailFingerprint(email_data, parsed, normalized_full, hashes) ==
  [new_content_hash |-> hashes[1],
   quoted_content_hash |-> hashes[2],
   full_content_hash |-> hashes[3],
   structure_hash |-> hashes[4],
   thread_hash |-> hashes[5],
   recipient_set_hash |-> hashes[6],
   has_meaningful_new_content |-> parsed.new_content_meaningful,
   new_content_intent |-> parsed.new_content_intent,
   email_type |-> parsed.type,
   parsing_confidence |-> parsed.parsing_confidence,
   composite_hash |-> _generate_composite_hash(hashes),
   normalized_content |-> normalized_full,
   content_source |-> content_source(email_data),
   fingerprint_version |-> fingerprint_version]

\* The six hashes of generate_fingerprints
ComponentHashes(email_data, parsed, normalized_full) ==
  <<PartHash(parsed.new_content),
    PartHash(parsed.quoted_content),
    _hash(normalized_full),
    _generate_structure_hash(email_data, parsed),
    _generate_thread_hash(email_data),
    _generate_recipient_hash(email_data)>>

FingerprintParsed(email_data, parsed, normalized_full) ==
  CompleteEmailFingerprint(email_data, parsed, normalized_full,
                           ComponentHashes(email_data, parsed, normalized_full))

FingerprintContent(email_data, content) ==
  FingerprintParsed(email_data, parse_email_structure(content),
                    normalize(content, TRUE))

\* CompleteEmailFingerprinter.generate_fingerprints
generate_fingerprints(email_data) ==
  IF BodyRaises(email_data) THEN Raised
  ELSE FingerprintContent(email_data, _extract_content(email_data))

(***************************************************************************)
(* EmailNormalizer (email_normalization.py)                                *)
(***************************************************************************)
\* EmailNormalizer.normalize_email_content
normalize_email_content(body_text) ==
  IF ~Truthy(body_text) THEN <<>> ELSE normalize(body_text, TRUE)

\* "view this newsletter in html", "view in browser", "[view in browser]"
template_messages ==
  {<<"v","i","e","w"," ","t","h","i","s"," ","n","e","w","s","l","e","t","t","e","r",
     " ","i","n"," ","h","t","m","l">>,
   <<"v","i","e","w"," ","i","n"," ","b","r","o","w","s","e","r">>,
   <<"[","v","i","e","w"," ","i","n"," ","b","r","o","w","s","e","r","]">>}

\* len(body_text.strip()) < 50
min_body_length == 50

\* EmailNormalizer.generate_fingerprint: is_effectively_empty
is_effectively_empty(body_text) ==
  \/ ~Truthy(body_text)
  \/ Len(Strip(body_text)) = 0
  \/ Lower(Strip(body_text)) \in template_messages
  \/ Len(Strip(body_text)) < min_body_length

\* content_to_use = body_html if is_effectively_empty and body_html else body_text
content_to_use(body_text, body_html) ==
  IF is_effectively_empty(body_text) /\ Truthy(body_html) THEN body_html
  ELSE body_text

\* if not canonical_body or not canonical_body.strip(): canonical_body = content
canonical_body(content, normalized) ==
  IF Len(normalized) = 0 \/ Len(Strip(normalized)) = 0 THEN content
  ELSE normalized

\* EmailNormalizer.generate_fingerprint: the text that is hashed
fingerprint_body(body_text, body_html) ==
  canonical_body(content_to_use(body_text, body_html),
                 normalize_email_content(content_to_use(body_text, body_html)))

\* hashlib.sha256(canonical_body.encode('utf-8')); encoding None raises
Sha256OrRaise(body) == IF body = None THEN AttributeError ELSE _hash(body)

\* EmailNormalizer.generate_fingerprint
generate_fingerprint(body_text, body_html) ==
  Sha256OrRaise(fingerprint_body(body_text, body_html))

\* return canonical_body, fingerprint
ContentAndFingerprint(body) ==
  IF body = None THEN <<None, AttributeError>> ELSE <<body, _hash(body)>>

\* EmailNormalizer.get_normalized_content_and_fingerprint
get_normalized_content_and_fingerprint(body_text) ==
  ContentAndFingerprint(canonical_body(body_text, normalize_email_content(body_text)))

(***************************************************************************)
(* GmailServiceAccountExtractor                                            *)
(* (gmail_service_account_extractor_with_dedup.py)                         *)
(***************************************************************************)
\* f"{full_content_hash or ''}|{structure_hash or ''}"
OrEmpty(h) == IF Truthy(h) THEN h ELSE <<>>

\* GmailServiceAccountExtractor._create_composite_fingerprint
_create_composite_fingerprint(full_content_hash, structure_hash) ==
  _hash(OrEmpty(full_content_hash) \o <<"|">> \o OrEmpty(structure_hash))

(***************************************************************************)
(* State                                                                   *)
(***************************************************************************)
VARIABLES
  call,                   \* the arguments of the calls the run makes
  op,                     \* the operation that returned last ("none" at first)
  result,                 \* what it returned
  classified_emails,      \* table: id -> row
  email_fingerprints_v2,  \* table: email_id -> row
  email_duplicate_groups, \* table: id -> row
  emails_id_seq,          \* classified_emails.id SERIAL: the last value drawn
  groups_id_seq,          \* email_duplicate_groups.id SERIAL: the last value drawn
  new_messages,           \* extract_emails: the messages still to process
  processed_count,        \* extract_emails: its three counters
  error_count,
  duplicate_count,
  lru_cache,              \* the entries of resolve's lru_cache, oldest first
  threads,                \* thread -> where its resolve call stands
  transactions            \* extractor process -> its open transaction

vars == <<call, op, result, classified_emails, email_fingerprints_v2,
          email_duplicate_groups, emails_id_seq, groups_id_seq, new_messages,
          processed_count, error_count, duplicate_count, lru_cache, threads,
          transactions>>

tables == <<classified_emails, email_fingerprints_v2, email_duplicate_groups,
            emails_id_seq, groups_id_seq>>

\* What a run of extract_emails, the threads that share the resolver and the
\* concurrent extractor processes hold.
activity == <<new_messages, processed_count, error_count, duplicate_count,
              lru_cache, threads, transactions>>

\* No run of extract_emails is under way, the resolver's cache is empty and
\* no thread or extractor process is at work.
no_activity ==
  /\ new_messages = {}
  /\ processed_count = 0
  /\ error_count = 0
  /\ duplicate_count = 0
  /\ lru_cache = <<>>
  /\ threads = <<>>
  /\ transactions = <<>>

\* setup_database on an empty database: the three tables exist and are empty.
setup_database ==
  /\ classified_emails = <<>>
  /\ email_fingerprints_v2 = <<>>
  /\ email_duplicate_groups = <<>>
  /\ emails_id_seq = 0
  /\ groups_id_seq = 0

(***************************************************************************)
(* Inputs: texts are a lexeme between a leading and a trailing context.    *)
(***************************************************************************)
\* Lexemes by class: two lexemes of one class differ only in what the class
\* names.
UrlLexemes ==
  {<<"h","t","t","p",":","/","/","a",".","c","o","m">>,
  <<"h","t","t","p","s",":","/","/","b",".","o","r","g","/","c","?","u","t","m","_","s","=","1","&","u","t","m","_","m","=","e">>,
  <<"h","t","t","p","s",":","/","/","m","a","i","l","t","r","a","c","k",".","i","o","/","t","r","a","c","e","/","a","b","1">>}

AddressLexemes ==
  {<<"b","o","b","@","x",".","c","o","m">>,
  <<"a","m","y",".","l","e","e","@","y",".","o","r","g">>}

SpaceLexemes == {<<" ">>, <<" ", " ">>, <<"\t">>, <<"\n">>, <<"\n", "\n">>}

QuoteLexemes == {<<"'">>, <<"<RSQUO>">>, <<"\"">>, <<"<LDQUO>">>}

\* Text that normalization removes whole.
NoiseLexemes == {<<>>, <<"<ZWSP>">>, <<"?","u","t","m","_","a","=","b">>}

PunctuationLexemes == {<<"<EMDASH>">>, <<"<ELLIPSIS>">>, <<"[","U","R","L","]">>}

LexemeClass ==
  [url |-> UrlLexemes, address |-> AddressLexemes, space |-> SpaceLexemes,
   quote |-> QuoteLexemes, noise |-> NoiseLexemes,
   punctuation |-> PunctuationLexemes]

Classes == DOMAIN LexemeClass

Lexemes == UNION {LexemeClass[c] : c \in Classes}

LeadingContexts == {<<>>, <<"H","i">>, <<"S","e","n","t"," ","f","r","o","m"," ","m","y">>}

TrailingContexts == {<<>>, <<"x">>, <<"i","P","h","o","n","e">>}

(***************************************************************************)
(* ContentNormalizer.normalize applied once and then to its own output     *)
(***************************************************************************)
InitNormalize ==
  /\ setup_database
  /\ no_activity
  /\ op = "none"
  /\ result = <<>>
  /\ \E before \in LeadingContexts, x \in Lexemes, after \in TrailingContexts,
        preserve_structure \in BOOLEAN :
       call = [text |-> before \o x \o after,
               preserve_structure |-> preserve_structure]

\* normalizer.normalize(text, preserve_structure)
Normalize ==
  /\ op = "none"
  /\ op' = "normalize"
  /\ result' = <<normalize(call.text, call.preserve_structure)>>
  /\ UNCHANGED <<call, tables, activity>>

\* normalizer.normalize(normalized, preserve_structure) on the text the first
\* call returned
NormalizeAgain ==
  /\ op = "normalize"
  /\ op' = "normalize_again"
  /\ result' = Append(result, normalize(result[1], call.preserve_structure))
  /\ UNCHANGED <<call, tables, activity>>

NextNormalize == Normalize \/ NormalizeAgain

SpecNormalize == InitNormalize /\ [][NextNormalize]_vars

\* C5: normalize is idempotent: normalizing the text normalize returned, with
\* the same preserve_structure, returns that text unchanged.
NormalizeIdempotent ==
  op = "normalize_again" => result[2] = result[1]

(***************************************************************************)
(* Inputs: RawEmail records                                                *)
(***************************************************************************)
\* email_data.get(key, []) of a key the record does not hold
NoList == [is_list |-> TRUE, items |-> <<>>]

\* The header fields of a message of a thread, as the extractor fills them.
ThreadHeaders ==
  [gmail_id |-> <<"g","1">>,
   subject |-> <<"R","e",":"," ","Q","3"," ","[","E","X","T","]">>,
   sender_email |-> <<"A","m","y",".","L","e","e","+","n","@","G","m","a","i","l",".","c","o","m">>,
   thread_id |-> <<"t","1">>,
   message_id |-> <<"<","m","1","@","y",">">>,
   in_reply_to |-> Missing,
   references |-> NoList,
   recipient_emails |-> [is_list |-> TRUE, items |-> <<<<"h","e","l","p","@","x",".","c","o","m">>>>],
   cc_emails |-> NoList,
   bcc_emails |-> NoList,
   has_attachments |-> FALSE,
   attachment_count |-> 0]

\* A record that holds no header field at all.
NoHeaders ==
  [gmail_id |-> <<"g","0">>,
   subject |-> Missing,
   sender_email |-> Missing,
   thread_id |-> Missing,
   message_id |-> Missing,
   in_reply_to |-> Missing,
   references |-> NoList,
   recipient_emails |-> NoList,
   cc_emails |-> NoList,
   bcc_emails |-> NoList,
   has_attachments |-> FALSE,
   attachment_count |-> 0]

RawEmail(headers, body_text, body_html) ==
  headers @@ [body_text |-> body_text, body_html |-> body_html]

\* A lexeme as it stands in a body: URLs, addresses, quotes and punctuation
\* are words of their own, whitespace and noise join the words around them.
InBody(class, x) ==
  IF class \in {"space", "noise"} THEN x ELSE <<" ">> \o x \o <<" ">>

\* Text bodies of records that are fingerprinted alone.
TextBodies ==
  {Missing, None, <<>>, <<" ","\n"," ">>, <<"?","u","t","m","_","a","=","b">>, <<"<ZWSP>">>,
   <<"h","t","t","p",":","/","/","x",".","c","o","m","/","a","b","c">>, <<"H","i"," ","t","e","a","m">>}

\* HTML bodies: absent, null, empty, well-formed, unclosed, with a marked
\* section the parser rejects, and a comment only.
HtmlBodies ==
  {Missing, None, <<>>, <<"<","p",">","H","i"," ","<","b",">","t","e","a","m","<","/","b",">","<","/","p",">">>, <<"<","d","i","v",">","H","i","<","b","r",">","t","e","a","m">>,
   <<"<","!","[","x","]",">","<","p",">","H","i","<","/","p",">">>, <<"<","!","-","-"," ","c"," ","-","-",">">>}

(***************************************************************************)
(* The fingerprinting entry points, applied to a pair of records that      *)
(* differ in one lexeme of the body (differ names its class), or to one     *)
(* record alone (differ is "nothing" and b is a).                          *)
(***************************************************************************)
PairCalls ==
  {[a |-> RawEmail(ThreadHeaders, before \o InBody(class, x) \o after, Missing),
    b |-> RawEmail(ThreadHeaders, before \o InBody(class, y) \o after, Missing),
    differ |-> class] :
     <<before, after>> \in LeadingContexts \X TrailingContexts,
     <<class, x, y>> \in
       {<<c, u, v>> \in Classes \X Lexemes \X Lexemes :
          u \in LexemeClass[c] /\ v \in LexemeClass[c] /\ u # v}}

SingleCalls ==
  {[a |-> RawEmail(headers, body_text, body_html),
    b |-> RawEmail(headers, body_text, body_html),
    differ |-> "nothing"] :
     <<headers, body_text, body_html>> \in
       {ThreadHeaders, NoHeaders} \X TextBodies \X HtmlBodies}

InitFingerprint ==
  /\ setup_database
  /\ no_activity
  /\ op = "none"
  /\ result = <<>>
  /\ call \in PairCalls \cup SingleCalls

\* fingerprinter.generate_fingerprints(email_data), for a and then for b
GenerateFingerprints ==
  /\ op \in {"none", "generate_fingerprints"}
  /\ Len(result) < 2
  /\ op' = "generate_fingerprints"
  /\ result' = Append(result, generate_fingerprints(
                                IF Len(result) = 0 THEN call.a ELSE call.b))
  /\ UNCHANGED <<call, tables, activity>>

\* EmailNormalizer().generate_fingerprint(body_text, body_html) on the
\* bodies of a (a key the record does not hold is passed as None)
GenerateFingerprint ==
  /\ op = "none"
  /\ op' = "generate_fingerprint"
  /\ result' = <<generate_fingerprint(Get(call.a, "body_text", None),
                                      Get(call.a, "body_html", None))>>
  /\ UNCHANGED <<call, tables, activity>>

\* EmailNormalizer().get_normalized_content_and_fingerprint(body_text)
GetNormalizedContentAndFingerprint ==
  /\ op = "none"
  /\ op' = "get_normalized_content_and_fingerprint"
  /\ result' = <<get_normalized_content_and_fingerprint(
                   Get(call.a, "body_text", None))>>
  /\ UNCHANGED <<call, tables, activity>>

NextFingerprint ==
  \/ GenerateFingerprints
  \/ GenerateFingerprint
  \/ GetNormalizedContentAndFingerprint

SpecFingerprint == InitFingerprint /\ [][NextFingerprint]_vars

\* The records the two calls of generate_fingerprints were made on.
Fingerprinted == <<call.a, call.b>>

\* generate_fingerprints returned for a and for b.
BothReturned == op = "generate_fingerprints" /\ Len(result) = 2

\* The six component hashes of a fingerprint, in the field order.
Components(fingerprint) ==
  <<fingerprint.new_content_hash, fingerprint.quoted_content_hash,
    fingerprint.full_content_hash, fingerprint.structure_hash,
    fingerprint.thread_hash, fingerprint.recipient_set_hash>>

SameContentAndComposite ==
  /\ result[1] # Raised
  /\ result[2] # Raised
  /\ result[1].full_content_hash = result[2].full_content_hash
  /\ result[1].composite_hash = result[2].composite_hash

\* C1: two records that differ only in a URL of the body (tracking URLs
\* included) or only in an email address the body mentions get the same
\* full_content_hash and the same composite_hash.
UrlAndAddressInvariance ==
  (BothReturned /\ call.differ \in {"url", "address"}) => SameContentAndComposite

\* C2: two records that differ only in the amount of whitespace of the body
\* or only in the styling of a quotation mark get the same full_content_hash
\* and the same composite_hash.
WhitespaceAndQuoteInvariance ==
  (BothReturned /\ call.differ \in {"space", "quote"}) => SameContentAndComposite

\* C3: no entry point returns the hash of the empty string: not
\* generate_fingerprints as full_content_hash, not generate_fingerprint, not
\* get_normalized_content_and_fingerprint.
NeverHashesEmptyString ==
  /\ op = "generate_fingerprints" =>
       \A k \in 1..Len(result) :
         result[k] # Raised => result[k].full_content_hash # _hash(<<>>)
  /\ op = "generate_fingerprint" => result[1] # _hash(<<>>)
  /\ op = "get_normalized_content_and_fingerprint" => result[1][2] # _hash(<<>>)

\* C4: when the extracted content normalizes to the empty string,
\* full_content_hash is the hash of the extracted content as it was before
\* normalization; otherwise (a bare URL) it is the hash of the normalized
\* content.
EmptyNormalizationHashesRawContent ==
  op = "generate_fingerprints" =>
    \A k \in 1..Len(result) :
      result[k] # Raised =>
        result[k].full_content_hash =
          IF result[k].normalized_content = <<>>
            THEN _hash(_extract_content(Fingerprinted[k]))
            ELSE _hash(result[k].normalized_content)

GenerateFingerprintsNeverRaises ==
  op = "generate_fingerprints" =>
    \A k \in 1..Len(result) :
      /\ result[k] # Raised
      /\ (Fingerprinted[k] \in {RawEmail(NoHeaders, t, h) :
                                  t \in {Missing, None, <<>>},
                                  h \in {Missing, None, <<>>}})
           => result[k].thread_hash = _hash(<<>>)

(***************************************************************************)
(* AdvancedContentParser.parse_email_structure applied to a body made of   *)
(* the text before a forward banner, the banner (or none) and the text     *)
(* after it                                                                *)
(***************************************************************************)
TextsBefore ==
  {<<>>, <<"H","i"," ","t","e","a","m",","," ","s","e","e"," ","b","e","l","o","w",".","\n","\n">>, <<"o","k","\n","\n","B","e","s","t",",","\n","A","l","\n","\n">>,
   <<"O","n"," ","M","o","n",","," ","B","o","b"," ","w","r","o","t","e",":","\n",">"," ","h","i","\n">>,
   <<"T","h","a","n","k","s","!","\n","\n","B","e","s","t",",","\n","J","a","n","e">>, <<"H","i","\n","B","e","s","t",",","\n","A","l","\n","-","-","\n","x","\n">>,
   <<"S","e","n","t"," ","f","r","o","m"," ","m","y"," ","i","P","h","o","n","e">>, <<"f","y","i"," ","s","e","e"," ","t","h","i","s","\n">>, <<"Y","e","s",".","\n">>, <<" "," "," ">>}

\* One banner for each entry of forward_patterns, and no banner.
ForwardBanners ==
  {<<>>,
   <<"-","-","-","-","-"," ","F","o","r","w","a","r","d","e","d"," ","m","e","s","s","a","g","e"," ","-","-","-","-","-">>,
   <<"B","e","g","i","n"," ","f","o","r","w","a","r","d","e","d"," ","m","e","s","s","a","g","e",":">>,
   <<"-","-","-","-","-","-"," ","O","r","i","g","i","n","a","l"," ","M","e","s","s","a","g","e"," ","-","-","-","-","-","-">>,
   <<"_","_","_","_","_","_","_","_","_","_","\n","F","r","o","m",":"," ","a","\n","S","e","n","t",":"," ","b","\n","T","o",":"," ","c","\n","S","u","b","j","e","c","t",":">>,
   <<"-","-","-"," ","M","e","s","s","a","g","e"," ","t","r","a","n","s","f","<eacute>","r","<eacute>"," ","-","-","-">>,
   <<"<BOXHEAVY>","<BOXHEAVY>","<BOXHEAVY>"," ","M","e","n","s","a","j","e"," ","r","e","e","n","v","i","a","d","o"," ","<BOXHEAVY>","<BOXHEAVY>","<BOXHEAVY>">>,
   <<"<BOXDOUBLE>","<BOXDOUBLE>","<BOXDOUBLE>"," ","w","e","i","t","e","r","g","e","l","e","i","t","e","t","e"," ","N","a","c","h","r","i","c","h","t"," ","<BOXDOUBLE>","<BOXDOUBLE>","<BOXDOUBLE>">>}

\* The standard banner and the Outlook banner, as they stand around a
\* forward that the body forwards again.
InnerBanners ==
  {<<"-","-","-","-","-"," ","F","o","r","w","a","r","d","e","d"," ","m","e","s","s","a","g","e"," ","-","-","-","-","-">>, <<"-","-","-","-","-","-"," ","O","r","i","g","i","n","a","l"," ","M","e","s","s","a","g","e"," ","-","-","-","-","-","-">>}

TextsAfter ==
  {<<>>, <<"\n","F","r","o","m",":"," ","a","@","b",".","c","o","m">>, <<"\n","O","n"," ","M","o","n",","," ","B","o","b"," ","w","r","o","t","e",":","\n",">"," ","h","i">>}
  \cup {<<"\n","F","r","o","m",":"," ","a","\n","\n">> \o inner \o <<"\n","F","r","o","m",":"," ","c">> : inner \in InnerBanners}

InitParse ==
  /\ setup_database
  /\ no_activity
  /\ op = "none"
  /\ result = <<>>
  /\ \E before \in TextsBefore, banner \in ForwardBanners, after \in TextsAfter :
       call = [content |-> before \o banner \o after,
               before |-> before, banner |-> banner, after |-> after]

\* parser.parse_email_structure(content)
ParseEmailStructure ==
  /\ op = "none"
  /\ op' = "parse_email_structure"
  /\ result' = <<parse_email_structure(call.content)>>
  /\ UNCHANGED <<call, tables, activity>>

NextParse == ParseEmailStructure

SpecParse == InitParse /\ [][NextParse]_vars

\* The body held a forward banner and was parsed.
ParsedWithBanner == op = "parse_email_structure" /\ call.banner # <<>>

\* The text before the banner, trimmed and without its signature (None when
\* nothing is left).
NewContentBefore ==
  IF Len(_remove_signatures(Strip(call.before))) > 0
    THEN _remove_signatures(Strip(call.before)) ELSE None

\* C10: a body with a forward banner is parsed as a forward with confidence
\* 0.9, new_content is the text before the banner (trimmed, signature
\* stripped) and quoted_content is the text from the banner on, the banner
\* included, whether or not a reply attribution line occurs in the body.
ForwardQuotesFromBanner ==
  ParsedWithBanner =>
    /\ result[1].type = "forward"
    /\ result[1].parsing_confidence = 90
    /\ result[1].new_content = NewContentBefore
    /\ result[1].quoted_content = Strip(call.banner \o call.after)

\* What the parser does with such a body: quoted_content is the text after
\* the banner.
ForwardQuotesAfterBanner ==
  ParsedWithBanner =>
    /\ result[1].type = "forward"
    /\ result[1].parsing_confidence = 90
    /\ result[1].new_content = NewContentBefore
    /\ result[1].quoted_content = Strip(call.after)

(***************************************************************************)
(* GmailServiceAccountExtractor._save_email_to_db on the three tables      *)
(* (gmail_service_account_extractor_with_dedup.py).  One call is one       *)
(* transaction; the calls of one extractor are made one after the other.   *)
(* An id column that is NULL holds 0, and 0 is returned for None.          *)
(***************************************************************************)
\* The messages the extractor may fetch: a message, the same text sent again
\* in another thread, the same text with more whitespace, the same text
\* under another subject, another text, and a message whose text body is
\* null.
Inbox ==
  {RawEmail(ThreadHeaders, <<"H","i"," ","t","e","a","m">>, Missing),
   RawEmail([ThreadHeaders EXCEPT !.gmail_id = <<"g","2">>, !.thread_id = <<"t","2">>,
                                  !.message_id = <<"<","m","2","@","y",">">>],
            <<"H","i"," ","t","e","a","m">>, Missing),
   RawEmail([ThreadHeaders EXCEPT !.gmail_id = <<"g","3">>], <<"H","i"," "," ","t","e","a","m">>, Missing),
   RawEmail([ThreadHeaders EXCEPT !.gmail_id = <<"g","4">>, !.subject = <<"Q","4">>],
            <<"H","i"," ","t","e","a","m">>, Missing),
   RawEmail([ThreadHeaders EXCEPT !.gmail_id = <<"g","5">>], <<"B","y","e">>, Missing),
   RawEmail([ThreadHeaders EXCEPT !.gmail_id = <<"g","6">>], None, Missing)}

\* The number of _save_email_to_db calls of a run.
MaxCalls == 4

\* normalized_body_text and normalized_body_html of the INSERT: the
\* normalized content goes to the column of its content_source; both are
\* None when fingerprinting raised.
NormalizedBody(fingerprints, source) ==
  IF fingerprints # Raised /\ fingerprints.content_source = source
    THEN fingerprints.normalized_content ELSE None

\* INSERT INTO classified_emails (...) RETURNING id: the new row
EmailRow(email_id, email_data, fingerprints) ==
  [id |-> email_id,
   gmail_id |-> email_data.gmail_id,
   normalized_body_text |-> NormalizedBody(fingerprints, "text"),
   normalized_body_html |-> NormalizedBody(fingerprints, "html"),
   duplicate_group_id |-> 0,
   content_fingerprint |-> None]

\* INSERT INTO email_fingerprints_v2 (...): the new row
FingerprintRow(email_id, fingerprints) ==
  [email_id |-> email_id,
   new_content_hash |-> fingerprints.new_content_hash,
   quoted_content_hash |-> fingerprints.quoted_content_hash,
   full_content_hash |-> fingerprints.full_content_hash,
   structure_hash |-> fingerprints.structure_hash,
   thread_hash |-> fingerprints.thread_hash,
   recipient_set_hash |-> fingerprints.recipient_set_hash,
   has_meaningful_new_content |-> fingerprints.has_meaningful_new_content,
   new_content_intent |-> fingerprints.new_content_intent,
   email_type |-> fingerprints.email_type,
   parsing_confidence |-> fingerprints.parsing_confidence,
   is_canonical |-> TRUE,
   canonical_email_id |-> 0,
   fingerprint_version |-> fingerprints.fingerprint_version]

\* The rule under which no INSERT conflicts.
NeverConflict(emails, gmail_id) == FALSE

\* ON CONFLICT (gmail_id) DO NOTHING: a row with this gmail_id is stored
Conflict(emails, gmail_id) == \E k \in DOMAIN emails : emails[k].gmail_id = gmail_id

\* SELECT edg.id, edg.primary_email_id ... WHERE edg.content_fingerprint = %s
\* and fetchone(): the position of the first such group, 0 when there is none
existing_group(groups, composite_fingerprint) ==
  IF \E k \in DOMAIN groups : groups[k].content_fingerprint = composite_fingerprint
    THEN CHOOSE k \in DOMAIN groups :
           /\ groups[k].content_fingerprint = composite_fingerprint
           /\ \A j \in 1..(k - 1) : groups[j].content_fingerprint # composite_fingerprint
    ELSE 0

\* UPDATE classified_emails SET duplicate_group_id = %s,
\* content_fingerprint = %s WHERE id = %s
SetDuplicateGroup(emails, duplicate_group_id, composite_fingerprint, email_id) ==
  [k \in DOMAIN emails |->
     IF emails[k].id = email_id
       THEN [emails[k] EXCEPT !.duplicate_group_id = duplicate_group_id,
                              !.content_fingerprint = composite_fingerprint]
       ELSE emails[k]]

\* An UPDATE that sets canonical_email_id and leaves is_canonical as it is.
SetCanonicalEmailId(fingerprint_rows, canonical_email_id, email_id) ==
  [k \in DOMAIN fingerprint_rows |->
     IF fingerprint_rows[k].email_id = email_id
       THEN [fingerprint_rows[k] EXCEPT !.canonical_email_id = canonical_email_id]
       ELSE fingerprint_rows[k]]

\* UPDATE email_fingerprints_v2 SET is_canonical = FALSE,
\* canonical_email_id = %s WHERE email_id = %s
SetNotCanonical(fingerprint_rows, canonical_email_id, email_id) ==
  [k \in DOMAIN fingerprint_rows |->
     IF fingerprint_rows[k].email_id = email_id
       THEN [fingerprint_rows[k] EXCEPT !.is_canonical = FALSE,
                                        !.canonical_email_id = canonical_email_id]
       ELSE fingerprint_rows[k]]

\* The groups with no member counted.
KeepCount(groups, duplicate_group_id) == groups

\* UPDATE email_duplicate_groups SET member_count = member_count + 1 WHERE id = %s
CountMember(groups, duplicate_group_id) ==
  [k \in DOMAIN groups |->
     IF groups[k].id = duplicate_group_id
       THEN [groups[k] EXCEPT !.member_count = @ + 1]
       ELSE groups[k]]

\* INSERT INTO email_duplicate_groups (...) VALUES (%s, %s, 1, ...) RETURNING id
GroupRow(duplicate_group_id, composite_fingerprint, email_id) ==
  [id |-> duplicate_group_id,
   content_fingerprint |-> composite_fingerprint,
   primary_email_id |-> email_id,
   member_count |-> 1]

\* "if existing_group:" and its else, g being the position of the group found
AssignGroup(fingerprints, email_id, composite_fingerprint, emails, g) ==
  IF g > 0
    THEN /\ classified_emails' =
              SetDuplicateGroup(emails, email_duplicate_groups[g].id,
                                composite_fingerprint, email_id)
         /\ email_fingerprints_v2' =
              SetNotCanonical(
                Append(email_fingerprints_v2, FingerprintRow(email_id, fingerprints)),
                email_duplicate_groups[g].primary_email_id, email_id)
         /\ email_duplicate_groups' =
              CountMember(email_duplicate_groups, email_duplicate_groups[g].id)
         /\ UNCHANGED groups_id_seq
    ELSE /\ groups_id_seq' = groups_id_seq + 1
         /\ email_duplicate_groups' =
              Append(email_duplicate_groups,
                     GroupRow(groups_id_seq + 1, composite_fingerprint, email_id))
         /\ classified_emails' =
              SetDuplicateGroup(emails, groups_id_seq + 1,
                                composite_fingerprint, email_id)
         /\ email_fingerprints_v2' =
              Append(email_fingerprints_v2, FingerprintRow(email_id, fingerprints))

\* _save_email_to_db after fingerprinting: the INSERT draws the next id even
\* when the row conflicts; without fingerprints only the email row is
\* stored.
SaveRows(email_data, fingerprints, email_id) ==
  IF Conflict(classified_emails, email_data.gmail_id)
    THEN /\ result' = <<0>>
         /\ UNCHANGED <<classified_emails, email_fingerprints_v2,
                        email_duplicate_groups, groups_id_seq>>
  ELSE IF fingerprints = Raised
    THEN /\ result' = <<email_id>>
         /\ classified_emails' =
              Append(classified_emails, EmailRow(email_id, email_data, fingerprints))
         /\ UNCHANGED <<email_fingerprints_v2, email_duplicate_groups, groups_id_seq>>
  ELSE /\ result' = <<email_id>>
       /\ AssignGroup(
            fingerprints, email_id,
            _create_composite_fingerprint(fingerprints.full_content_hash,
                                          fingerprints.structure_hash),
            Append(classified_emails, EmailRow(email_id, email_data, fingerprints)),
            existing_group(email_duplicate_groups,
                           _create_composite_fingerprint(
                             fingerprints.full_content_hash,
                             fingerprints.structure_hash)))

\* "except Exception: self.db_conn.rollback(); return None": a statement
\* after the INSERT of the email row raised.  The rows the transaction wrote
\* are gone; the values drawn from the two sequences are not given back, and
\* email_duplicate_groups.id was drawn when the INSERT of a new group ran.
rollback(email_data, fingerprints) ==
  /\ ~Conflict(classified_emails, email_data.gmail_id)
  /\ result' = <<0>>
  /\ UNCHANGED <<classified_emails, email_fingerprints_v2, email_duplicate_groups>>
  /\ \/ UNCHANGED groups_id_seq
     \/ /\ fingerprints # Raised
        /\ existing_group(email_duplicate_groups,
                          _create_composite_fingerprint(
                            fingerprints.full_content_hash,
                            fingerprints.structure_hash)) = 0
        /\ groups_id_seq' = groups_id_seq + 1

\* GmailServiceAccountExtractor._save_email_to_db(email_data)
_save_email_to_db(email_data) ==
  /\ emails_id_seq < MaxCalls
  /\ call' = email_data
  /\ op' = "_save_email_to_db"
  /\ emails_id_seq' = emails_id_seq + 1
  /\ \E fingerprints \in {generate_fingerprints(email_data)} :
       \/ SaveRows(email_data, fingerprints, emails_id_seq + 1)
       \/ rollback(email_data, fingerprints)

Init ==
  /\ setup_database
  /\ no_activity
  /\ call = <<>>
  /\ op = "none"
  /\ result = <<>>

Next ==
  \E email_data \in Inbox : _save_email_to_db(email_data) /\ UNCHANGED activity

Spec == Init /\ [][Next]_vars

\* The rows of a table.
Rows(table) == {table[k] : k \in DOMAIN table}

\* What generate_fingerprints gives for each message of the inbox.
InboxFingerprints == [email_data \in Inbox |-> generate_fingerprints(email_data)]

\* The fingerprint of the message a classified_emails row was stored for.
FingerprintOf(row) ==
  InboxFingerprints[CHOOSE email_data \in Inbox : email_data.gmail_id = row.gmail_id]

\* C7: two stored emails that were fingerprinted are in the same duplicate
\* group exactly when generate_fingerprints gave them the same
\* composite_hash.
GroupedIffEqualCompositeHash ==
  \A x, y \in Rows(classified_emails) :
    (FingerprintOf(x) # Raised /\ FingerprintOf(y) # Raised) =>
      (x.duplicate_group_id = y.duplicate_group_id
         <=> FingerprintOf(x).composite_hash = FingerprintOf(y).composite_hash)

\* The key of a stored email: the content_fingerprint of its row.
KeyOf(emails, email_id) ==
  (CHOOSE e \in Rows(emails) : e.id = email_id).content_fingerprint

\* The first email that was saved with a key: ids are drawn in the order of
\* the calls.
FirstSaved(emails, key) ==
  CHOOSE id \in {e.id : e \in {r \in Rows(emails) : r.content_fingerprint = key}} :
    \A e \in Rows(emails) : e.content_fingerprint = key => id <= e.id

\* The fingerprint row a call stores is canonical exactly when no group had
\* its key before the call, and otherwise names the primary email of the
\* group with its key.
SavedCanonicalIffNewKey ==
  \A k \in DOMAIN email_fingerprints_v2' \ DOMAIN email_fingerprints_v2 :
    LET row == email_fingerprints_v2'[k]
        key == KeyOf(classified_emails', row.email_id)
        known == \E g \in Rows(email_duplicate_groups) : g.content_fingerprint = key
    IN  /\ row.is_canonical = ~known
        /\ known => \E g \in Rows(email_duplicate_groups') :
                      /\ g.content_fingerprint = key
                      /\ row.canonical_email_id = g.primary_email_id

\* A call changes no fingerprint row stored before it and the primary email
\* of no group.
StoredRowsKept ==
  /\ \A k \in DOMAIN email_fingerprints_v2 :
       email_fingerprints_v2'[k] = email_fingerprints_v2[k]
  /\ \A k \in DOMAIN email_duplicate_groups :
       /\ email_duplicate_groups'[k].content_fingerprint
            = email_duplicate_groups[k].content_fingerprint
       /\ email_duplicate_groups'[k].primary_email_id
            = email_duplicate_groups[k].primary_email_id

\* The primary email of every group is the first email saved with the
\* group's key, and every fingerprint row that is not canonical names it.
PrimaryIsFirstSaved ==
  /\ \A g \in Rows(email_duplicate_groups) :
       g.primary_email_id = FirstSaved(classified_emails, g.content_fingerprint)
  /\ \A row \in Rows(email_fingerprints_v2) :
       ~row.is_canonical =>
         row.canonical_email_id =
           FirstSaved(classified_emails, KeyOf(classified_emails, row.email_id))

\* C8: the fingerprint row of an email is canonical exactly when no group
\* with its key existed when it was saved; an email saved later with the
\* key is not canonical and names the group's primary email, which is the
\* first email saved with the key and never changes.
CanonicalIsFirstSaved ==
  /\ []PrimaryIsFirstSaved
  /\ [][SavedCanonicalIffNewKey /\ StoredRowsKept]_vars

\* Three emails were saved with one key: the first is canonical, the two
\* later ones name it.
TwoDuplicatesOfFirst ==
  \E g \in Rows(email_duplicate_groups) :
    /\ g.member_count = 3
    /\ \E first, second, third \in Rows(email_fingerprints_v2) :
         /\ first.email_id = g.primary_email_id
         /\ first.is_canonical
         /\ second.email_id # third.email_id
         /\ ~second.is_canonical
         /\ ~third.is_canonical
         /\ second.canonical_email_id = first.email_id
         /\ third.canonical_email_id = first.email_id

\* The classified_emails rows that are members of a group.
Members(g) == {e \in Rows(classified_emails) : e.duplicate_group_id = g.id}

\* C28: after any sequence of _save_email_to_db calls, stored, skipped or
\* rolled back, the member_count of every duplicate group is the number of
\* classified_emails rows whose duplicate_group_id is the group, and it is
\* at least 1.
MemberCountIsGroupSize ==
  \A g \in Rows(email_duplicate_groups) :
    /\ g.member_count = Cardinality(Members(g))
    /\ g.member_count >= 1

\* The call made last was rolled back (it returned None and no row has its
\* gmail_id), an earlier call stored nothing either, and a group has two
\* members.
RolledBackAfterDuplicate ==
  /\ op = "_save_email_to_db"
  /\ result = <<0>>
  /\ \A e \in Rows(classified_emails) : e.gmail_id # call.gmail_id
  /\ emails_id_seq = Len(classified_emails) + 2
  /\ \E g \in Rows(email_duplicate_groups) :
       g.member_count = 2 /\ Cardinality(Members(g)) = 2

\* C30: saving an email whose gmail_id is already stored is a no-op:
\* _save_email_to_db returns None and leaves classified_emails,
\* email_fingerprints_v2 and email_duplicate_groups as they were, so no
\* member_count grows and no second fingerprint row is stored.
SavingStoredGmailIdIsNoOp ==
  [][(\E e \in Rows(classified_emails) : e.gmail_id = call'.gmail_id)
       => /\ result' = <<0>>
          /\ UNCHANGED <<classified_emails, email_fingerprints_v2,
                         email_duplicate_groups>>]_vars

\* The message of a group of two was saved again: the call returned None,
\* and the group still counts two members and two fingerprint rows.
DuplicateSavedAgain ==
  /\ op = "_save_email_to_db"
  /\ result = <<0>>
  /\ \E e \in Rows(classified_emails) :
       /\ e.gmail_id = call.gmail_id
       /\ \E g \in Rows(email_duplicate_groups) :
            /\ e.duplicate_group_id = g.id
            /\ g.member_count = 2
            /\ Cardinality({f \in Rows(email_fingerprints_v2) :
                              \E m \in Members(g) : f.email_id = m.id}) = 2

(***************************************************************************)
(* The reply, original, signature, intent and meaningful rules of          *)
(* parse_email_structure (SpecParse)                                       *)
(***************************************************************************)
Parsed == op = "parse_email_structure"

\* The body holds no forward marker.
NoForwardMarker == forward_patterns(call.content)[1] = 0

\* Line i is the first line of the body, top to bottom, that matches a
\* reply-attribution pattern.
FirstAttributionLine(i) ==
  /\ reply_patterns(SplitLines(call.content)[i])
  /\ \A j \in 1..(i - 1) : ~reply_patterns(SplitLines(call.content)[j])

\* The lines from..to of the body, joined again and trimmed.
BodyLines(from, to) ==
  Strip(Join(<<"\n">>, SubSeq(SplitLines(call.content), from, to)))

NullIfEmpty(text) == IF Len(text) > 0 THEN text ELSE None

ParsedWithoutMarkers ==
  /\ Parsed
  /\ Len(call.content) > 0
  /\ NoForwardMarker
  /\ \A i \in 1..Len(SplitLines(call.content)) : ~FirstAttributionLine(i)

\* C12 as stated: such a body gives kind=original, confidence 0.95,
\* quoted_content null and new_content equal to the whole body.
OriginalKeepsWholeBody ==
  ParsedWithoutMarkers =>
    /\ result[1].type = "original"
    /\ result[1].parsing_confidence = 95
    /\ result[1].quoted_content = None
    /\ result[1].new_content = call.content

\* C12, amended: such a body gives kind=original, confidence 0.95,
\* quoted_content null and new_content equal to the whole body when it
\* holds no signature marker, and to the trimmed text before the signature
\* marker when it holds one.
OriginalKeepsBodyUpToSignature ==
  ParsedWithoutMarkers =>
    /\ result[1].type = "original"
    /\ result[1].parsing_confidence = 95
    /\ result[1].quoted_content = None
    /\ result[1].new_content =
         IF signature_patterns(call.content) > 0
           THEN Strip(Slice(call.content, 1, signature_patterns(call.content)))
           ELSE call.content

\* An original whose body ends with a signature, and which is shorter than
\* the body for it.
OriginalWithSignature ==
  /\ ParsedWithoutMarkers
  /\ signature_patterns(call.content) > 1
  /\ result[1].type = "original"
  /\ Len(result[1].new_content) < Len(call.content)

\* Where each marker of the ordered marker list first occurs in the text
\* (0: nowhere).
MarkerStarts(text) ==
  <<Search(signature_dashes, Lower(text)), Search(signature_best, Lower(text)),
    Search(signature_regards, Lower(text)), Search(signature_iphone, Lower(text)),
    Search(signature_android, Lower(text))>>

\* Marker k is the first marker of the list that occurs in the text.
FirstMarkerFound(text, k) ==
  MarkerStarts(text)[k] > 0 /\ \A j \in 1..(k - 1) : MarkerStarts(text)[j] = 0

\* The text is new_content once truncated at the first marker of the list
\* found in it: stripped is the trimmed text before that marker, and the
\* text itself when no marker is found.
TruncatedAtFirstMarker(text, stripped) ==
  /\ \A k \in 1..5 :
       FirstMarkerFound(text, k) =>
         stripped = Strip(Slice(text, 1, MarkerStarts(text)[k]))
  /\ (\A k \in 1..5 : MarkerStarts(text)[k] = 0) => stripped = text

\* The text signature stripping is applied to: the trimmed text before the
\* forward marker, the trimmed lines above the first attribution line, or
\* the whole body.
CandidateNewContent ==
  IF ~NoForwardMarker
    THEN Strip(Slice(call.content, 1, forward_patterns(call.content)[1]))
  ELSE IF \E i \in 1..Len(SplitLines(call.content)) : FirstAttributionLine(i)
    THEN BodyLines(1, (CHOOSE i \in 1..Len(SplitLines(call.content)) :
                         FirstAttributionLine(i)) - 1)
  ELSE call.content

ThanksBestJane == <<"T","h","a","n","k","s","!","\n","\n","B","e","s","t",",","\n","J","a","n","e">>

\* C13: signature stripping truncates new_content at the first
\* signature-start marker of the ordered marker list that is found in it,
\* for forwards, replies and bodies with no quote or forward marker alike;
\* the body "Thanks!\n\nBest,\nJane" gives kind=original and
\* new_content="Thanks!".
SignatureTruncatesAtFirstListedMarker ==
  (Parsed /\ Len(call.content) > 0) =>
    /\ TruncatedAtFirstMarker(CandidateNewContent,
                              IF result[1].new_content = None THEN <<>>
                              ELSE result[1].new_content)
    /\ call.content = ThanksBestJane =>
         /\ result[1].type = "original"
         /\ result[1].new_content = <<"T","h","a","n","k","s","!">>

\* A body without quote or forward marker in which a closer ("Best,")
\* stands before a line of dashes: the dashes, first in the list, are where
\* new_content ends.
LaterMarkerFirstInList ==
  /\ ParsedWithoutMarkers
  /\ MarkerStarts(call.content)[1] > MarkerStarts(call.content)[2]
  /\ MarkerStarts(call.content)[2] > 0
  /\ result[1].new_content =
       Strip(Slice(call.content, 1, MarkerStarts(call.content)[1]))

\* C14: for every result of parse_email_structure, of any kind,
\* new_content_meaningful is true if and only if new_content is non-null
\* and non-empty after trimming.
MeaningfulIffNewContentNotBlank ==
  Parsed =>
    (result[1].new_content_meaningful
       <=> /\ result[1].new_content # None
           /\ Len(Strip(result[1].new_content)) > 0)

\* new_content with null read as the empty text.
NewContentText ==
  IF result[1].new_content = None THEN <<>> ELSE result[1].new_content

\* C15: for every parsed body, new_content_intent is the intent of the
\* first phrase of the ordered phrase table that matches the
\* post-signature-strip new_content; when no phrase matches it is
\* "comment" for two or more words, "brief comment" for exactly one word
\* and no intent for zero words.
IntentIsFirstPhraseOrWordCount ==
  Parsed => result[1].new_content_intent = _detect_intent(NewContentText)

(***************************************************************************)
(* CompleteEmailFingerprinter._extract_thread_subject and                  *)
(* _generate_structure_hash applied to a subject and to the same subject   *)
(* with one more reply or forward prefix                                   *)
(***************************************************************************)
\* Re:, Fwd: and Fw: in several letter cases, with and without whitespace
\* after them.
SubjectPrefixes ==
  {<<"R","e",":">>, <<"R","E",":"," ">>, <<"r","e",":"," "," ">>, <<"F","w","d",":"," ">>, <<"F","W","D",":">>, <<"F","w",":"," ">>, <<"f","W",":","\t">>}

Subjects ==
  {<<"M","e","e","t","i","n","g">>, <<"M","e","e","t","i","n","g"," ","[","U","R","G","E","N","T","]">>, <<"R","e",":"," ","R","e",":"," ","F","W","D",":"," ","M","e","e","t","i","n","g"," ","[","U","R","G","E","N","T","]">>,
   <<"Q","3"," ","(","d","r","a","f","t",")"," ","p","l","a","n">>, <<"[","E","X","T","]"," ","R","e",":"," ","Q","3">>, <<" ","R","e",":"," ","Q","3">>, <<"f","w","d",":"," ","F","w",":"," ","Q","3">>, <<>>}

InitSubject ==
  /\ setup_database
  /\ no_activity
  /\ op = "none"
  /\ result = <<>>
  /\ \E prefix \in SubjectPrefixes, subject \in Subjects :
       call = [prefix |-> prefix, subject |-> subject]

\* The subject with the prefix (k = 1) and without it (k = 2).
SubjectOf(k) == IF k = 1 THEN call.prefix \o call.subject ELSE call.subject

\* self._extract_thread_subject(subject) for both subjects
ExtractThreadSubject ==
  /\ op = "none"
  /\ op' = "_extract_thread_subject"
  /\ result' = [k \in 1..2 |-> _extract_thread_subject(SubjectOf(k))]
  /\ UNCHANGED <<call, tables, activity>>

\* self._generate_structure_hash(email_data, parsed) for two emails of one
\* sender that differ in the subject only, parsed being the same.
GenerateStructureHash ==
  /\ op = "none"
  /\ op' = "_generate_structure_hash"
  /\ \E parsed \in {parse_email_structure(<<"H","i">>)} :
       result' = [k \in 1..2 |->
                   _generate_structure_hash(
                     [ThreadHeaders EXCEPT !.subject = SubjectOf(k)], parsed)]
  /\ UNCHANGED <<call, tables, activity>>

NextSubject == ExtractThreadSubject \/ GenerateStructureHash

SpecSubject == InitSubject /\ [][NextSubject]_vars

\* C16: the normalized thread subject, and hence the structural hash, is
\* stable under subject-prefix accumulation: for every subject s and every
\* prefix p among Re:/Fwd:/Fw: (any letter case, any following whitespace)
\* _extract_thread_subject(p + s) = _extract_thread_subject(s), and
\* "Re: Re: FWD: Meeting [URGENT]" and "Meeting" give the same base subject.
SubjectStableUnderPrefixes ==
  /\ op \in {"_extract_thread_subject", "_generate_structure_hash"}
       => result[1] = result[2]
  /\ _extract_thread_subject(<<"R","e",":"," ","R","e",":"," ","F","W","D",":"," ","M","e","e","t","i","n","g"," ","[","U","R","G","E","N","T","]">>)
       = _extract_thread_subject(<<"M","e","e","t","i","n","g">>)

(***************************************************************************)
(* CompleteEmailFingerprinter._generate_thread_hash applied to two emails  *)
(* whose thread-identifying fields are present or absent independently     *)
(***************************************************************************)
ThreadIds == {Missing, <<"t","1">>}

MessageIds == {Missing, <<"<","m","1","@","y",">">>, <<"<","m","2","@","y",">">>}

InReplyTos == {Missing, <<"<","m","0","@","y",">">>}

\* No references, two lists that are permutations of each other, a longer
\* list and a references header kept as one text.
ReferenceLists ==
  {NoList,
   [is_list |-> TRUE, items |-> <<<<"<","r","1","@","y",">">>, <<"<","r","2","@","y",">">>>>],
   [is_list |-> TRUE, items |-> <<<<"<","r","2","@","y",">">>, <<"<","r","1","@","y",">">>>>],
   [is_list |-> FALSE, items |-> <<<<"<","r","1","@","y",">">>>>]}

ThreadSubjects == {<<"R","e",":"," ","Q","3">>, <<"Q","4">>}

ThreadEmails ==
  {[NoHeaders EXCEPT !.thread_id = thread_id, !.message_id = message_id,
                     !.in_reply_to = in_reply_to, !.references = references,
                     !.subject = subject, !.sender_email = <<"a","m","y","@","x",".","c","o","m">>] :
     thread_id \in ThreadIds, message_id \in MessageIds,
     in_reply_to \in InReplyTos, references \in ReferenceLists,
     subject \in ThreadSubjects}

InitThread ==
  /\ setup_database
  /\ no_activity
  /\ op = "none"
  /\ result = <<>>
  /\ \E a \in ThreadEmails, b \in ThreadEmails : call = [a |-> a, b |-> b]

\* self._generate_thread_hash(email_data) for both emails
GenerateThreadHash ==
  /\ op = "none"
  /\ op' = "_generate_thread_hash"
  /\ result' = [k \in 1..2 |->
                 _generate_thread_hash(IF k = 1 THEN call.a ELSE call.b)]
  /\ UNCHANGED <<call, tables, activity>>

NextThread == GenerateThreadHash

SpecThread == InitThread /\ [][NextThread]_vars

ThreadHashed == op = "_generate_thread_hash"

HasThreadId(email_data) == Truthy(Get(email_data, "thread_id", None))

\* The message-id, in-reply-to or references header is present.
HasThreadHeader(email_data) ==
  \/ Truthy(Get(email_data, "message_id", None))
  \/ Truthy(Get(email_data, "in_reply_to", None))
  \/ Len(email_data.references.items) > 0

SameThreadHeaders(a, b) ==
  /\ a.message_id = b.message_id
  /\ a.in_reply_to = b.in_reply_to
  /\ a.references = b.references

\* C17: the thread hash is computed from its sources in priority order:
\* two emails with the same thread identifier have the same thread hash
\* whatever their message-id, in-reply-to and references are; without a
\* thread identifier the header values determine it; subject and sender
\* domain matter only when thread identifier and headers are all absent.
ThreadHashFromFirstPresentSource ==
  ThreadHashed =>
    /\ (HasThreadId(call.a) /\ call.a.thread_id = call.b.thread_id)
         => result[1] = result[2]
    /\ (/\ ~HasThreadId(call.a) /\ ~HasThreadId(call.b)
        /\ HasThreadHeader(call.a)
        /\ SameThreadHeaders(call.a, call.b))
         => result[1] = result[2]
    /\ (/\ ~HasThreadId(call.a) /\ ~HasThreadId(call.b)
        /\ ~HasThreadHeader(call.a) /\ ~HasThreadHeader(call.b))
         => (result[1] = result[2] <=> call.a.subject = call.b.subject)

\* The items of t are those of s in another order.
Permuted(s, t) ==
  /\ Len(s) = Len(t)
  /\ \E f \in [1..Len(s) -> 1..Len(s)] :
       /\ \A i, j \in 1..Len(s) : f[i] = f[j] => i = j
       /\ \A i \in 1..Len(s) : t[i] = s[f[i]]

\* C18: the thread hash never depends on input ordering: two emails with
\* the same thread-identifying values, the references list of one being a
\* permutation of the other's, have the same thread hash.
ThreadHashIgnoresInputOrder ==
  (/\ ThreadHashed
   /\ call.a.thread_id = call.b.thread_id
   /\ call.a.message_id = call.b.message_id
   /\ call.a.in_reply_to = call.b.in_reply_to
   /\ call.a.subject = call.b.subject
   /\ call.a.references.is_list = call.b.references.is_list
   /\ Permuted(call.a.references.items, call.b.references.items))
    => result[1] = result[2]

(***************************************************************************)
(* CompleteEmailFingerprinter._generate_recipient_hash applied to two      *)
(* emails with their recipient, cc and bcc lists and their senders         *)
(***************************************************************************)
\* No recipient, two recipients, the same two in the other order with one
\* of them repeated and under an alias, and a recipient whose text starts
\* with "sender:".
RecipientLists ==
  {NoList,
   [is_list |-> TRUE, items |-> <<<<"a","m","y",".","l","e","e","@","g","m","a","i","l",".","c","o","m">>, <<"b","o","b","@","x",".","c","o","m">>>>],
   [is_list |-> TRUE,
    items |-> <<<<"B","o","b","@","x",".","c","o","m">>, <<"A","m","y","L","e","e","+","n","@","g","m","a","i","l",".","c","o","m">>, <<"b","o","b","@","x",".","c","o","m">>>>],
   [is_list |-> TRUE, items |-> <<<<"s","e","n","d","e","r",":","b","o","b","@","x",".","c","o","m">>>>]}

CcLists ==
  {NoList,
   [is_list |-> TRUE, items |-> <<<<"c","y","@","x",".","c","o","m">>>>],
   [is_list |-> TRUE, items |-> <<<<"b","o","b","@","x",".","c","o","m">>>>]}

\* No bcc, and one bcc address given as a str.
BccLists == {NoList, [is_list |-> FALSE, items |-> <<<<"c","y","@","x",".","c","o","m">>>>]}

Senders == {Missing, <<"b","o","b","@","x",".","c","o","m">>, <<"B","o","b","+","l","i","s","t","@","X",".","c","o","m">>}

RecipientEmails ==
  {[NoHeaders EXCEPT !.recipient_emails = recipient_emails,
                     !.cc_emails = cc_emails, !.bcc_emails = bcc_emails,
                     !.sender_email = sender_email] :
     recipient_emails \in RecipientLists, cc_emails \in CcLists,
     bcc_emails \in BccLists, sender_email \in Senders}

InitRecipients ==
  /\ setup_database
  /\ no_activity
  /\ op = "none"
  /\ result = <<>>
  /\ \E a \in RecipientEmails, b \in RecipientEmails : call = [a |-> a, b |-> b]

\* self._generate_recipient_hash(email_data) for both emails
GenerateRecipientHash ==
  /\ op = "none"
  /\ op' = "_generate_recipient_hash"
  /\ result' = [k \in 1..2 |->
                 _generate_recipient_hash(IF k = 1 THEN call.a ELSE call.b)]
  /\ UNCHANGED <<call, tables, activity>>

NextRecipients == GenerateRecipientHash

SpecRecipients == InitRecipients /\ [][NextRecipients]_vars

RecipientHashed == op = "_generate_recipient_hash"

\* The non-empty addresses of a field.
AddressesOf(field) ==
  {field.items[k] : k \in {j \in 1..Len(field.items) : Len(field.items[j]) > 0}}

\* The set of canonicalized recipient, cc and bcc addresses of an email.
CanonicalRecipients(email_data) ==
  {resolve(address) :
     address \in AddressesOf(email_data.recipient_emails)
                  \cup AddressesOf(email_data.cc_emails)
                  \cup AddressesOf(email_data.bcc_emails)}

\* The canonicalized sender of an email, None when it has none.
CanonicalSender(email_data) ==
  IF Truthy(Get(email_data, "sender_email", <<>>))
    THEN resolve(Get(email_data, "sender_email", <<>>)) ELSE None

SameSenderAndRecipients ==
  /\ CanonicalSender(call.a) = CanonicalSender(call.b)
  /\ CanonicalRecipients(call.a) = CanonicalRecipients(call.b)

\* C19: recipient_set_hash is invariant under permutation of the addresses
\* within the recipient, cc and bcc lists and under repetition of an
\* address: two emails with the same set of canonicalized recipient
\* addresses and the same canonicalized sender have the same hash.
RecipientHashOfSetAndSender ==
  (RecipientHashed /\ SameSenderAndRecipients) => result[1] = result[2]

\* Two emails whose recipient lists hold the same addresses in another
\* order, one repeated, one sent as bcc instead of cc, with one hash.
PermutedAndRepeatedRecipients ==
  /\ RecipientHashed
  /\ Len(call.a.recipient_emails.items) = 2
  /\ Len(call.b.recipient_emails.items) = 3
  /\ call.a.cc_emails # call.b.cc_emails
  /\ call.a.bcc_emails # call.b.bcc_emails
  /\ Truthy(Get(call.a, "sender_email", <<>>))
  /\ SameSenderAndRecipients
  /\ result[1] = result[2]

\* C20: in the recipient-set hash the sender role and the recipient role
\* never collide: the strings hashed for two emails are equal only if the
\* emails have the same canonical sender and the same set of canonical
\* recipients.
SenderAndRecipientRolesNeverCollide ==
  (RecipientHashed /\ result[1] = result[2]) => SameSenderAndRecipients

(***************************************************************************)
(* EmailAliasResolver.resolve applied to an address and to its plain       *)
(* spelling (lower case, no dots, no +tag, no surrounding whitespace)      *)
(***************************************************************************)
\* Local parts as they are written, each with its plain spelling.
SpelledLocals ==
  {[plain |-> <<"f","i","r","s","t","l","a","s","t">>, spelled |-> <<"f","i","r","s","t","l","a","s","t">>],
   [plain |-> <<"f","i","r","s","t","l","a","s","t">>, spelled |-> <<"F","i","r","s","t",".","L","a","s","t">>],
   [plain |-> <<"f","i","r","s","t","l","a","s","t">>, spelled |-> <<"f",".","i","r","s","t","L","A","S","T">>],
   [plain |-> <<"s","u","p","p","o","r","t">>, spelled |-> <<"S","u","p",".","p","o","r","t">>],
   [plain |-> <<"b","o","b">>, spelled |-> <<"B","o","b">>],
   [plain |-> <<"b","o","b">>, spelled |-> <<"b",".","o",".","b">>]}

PlusTags == {<<>>, <<"+","p","r","o","m","o">>, <<"+","N","e","w","s",".","1">>}

\* The providers of domain_rules that resolve treats differently, a domain
\* without rules, and no domain at all (the address holds no at sign).
AddressDomains ==
  {<<>>, <<"g","m","a","i","l",".","c","o","m">>, <<"G","o","o","g","l","e","m","a","i","l",".","c","o","m">>, <<"p","r","o","t","o","n","m","a","i","l",".","c","o","m">>, <<"y","a","h","o","o",".","c","o","m">>, <<"x",".","c","o","m">>}

Paddings == {<<>>, <<" ">>}

AtDomain(domain) == IF domain = <<>> THEN <<>> ELSE <<"@">> \o domain

InitResolve ==
  /\ setup_database
  /\ no_activity
  /\ op = "none"
  /\ result = <<>>
  /\ \E local \in SpelledLocals, tag \in PlusTags, domain \in AddressDomains,
        padding \in Paddings :
       call = [address |-> padding \o local.spelled \o tag \o AtDomain(domain)
                             \o padding,
               plain |-> local.plain \o AtDomain(Lower(domain)),
               local |-> local.spelled, tag |-> tag, domain |-> Lower(domain)]

\* alias_resolver.resolve(email) for the address and for its plain spelling
Resolve ==
  /\ op = "none"
  /\ op' = "resolve"
  /\ result' = [k \in 1..2 |-> resolve(IF k = 1 THEN call.address ELSE call.plain)]
  /\ UNCHANGED <<call, tables, activity>>

NextResolve == Resolve

SpecResolve == InitResolve /\ [][NextResolve]_vars

Resolved == op = "resolve"

\* C21: for addresses at gmail.com and googlemail.com resolve returns the
\* same canonical address regardless of letter case, dots in the local
\* part and any +tag suffix, so resolve("First.Last+promo@gmail.com") =
\* resolve("firstlast@gmail.com"); at protonmail.com, where plus-addressing
\* is significant, the +tag is kept (lower-cased and, as the whole local
\* part there, without its dots).
AliasFolding ==
  /\ (Resolved /\ call.domain \in {d_gmail, d_googlemail})
       => result[1] = result[2]
  /\ (Resolved /\ call.domain = d_protonmail /\ call.tag # <<>>)
       => result[1] = RemoveChars(Lower(call.local \o call.tag), {"."})
                        \o <<"@">> \o d_protonmail
  /\ resolve(<<"F","i","r","s","t",".","L","a","s","t","+","p","r","o","m","o","@","g","m","a","i","l",".","c","o","m">>) = resolve(<<"f","i","r","s","t","l","a","s","t","@","g","m","a","i","l",".","c","o","m">>)

\* The address of the example, resolved to its plain spelling.
FirstLastPromoFolded ==
  /\ Resolved
  /\ call.address = <<"F","i","r","s","t",".","L","a","s","t","+","p","r","o","m","o","@","g","m","a","i","l",".","c","o","m">>
  /\ result[1] = <<"f","i","r","s","t","l","a","s","t","@","g","m","a","i","l",".","c","o","m">>
  /\ result[2] = result[1]

\* C22: for every address that contains no at sign, resolve returns that
\* address lower-cased and trimmed of surrounding whitespace, with no
\* other change.
NoAtLowerCasedAndTrimmed ==
  (Resolved /\ "@" \notin Chars(call.address))
    => result[1] = Strip(Lower(call.address))

(***************************************************************************)
(* ContentNormalizer.normalize applied to two texts that differ only in    *)
(* an embedded URL or in an embedded email address                         *)
(***************************************************************************)
EmbeddedUrls ==
  UrlLexemes \cup {<<"h","t","t","p",":","/","/","a",".","c","o","m","/","x","?","u","t","m","_","s","o","u","r","c","e","=","1">>, <<"h","t","t","p",":","/","/","b",".","c","o","m","/","y">>}

\* The pairs of texts that may stand in the same place of a body.
Interchangeable ==
  (EmbeddedUrls \X EmbeddedUrls) \cup (AddressLexemes \X AddressLexemes)

TextsAround ==
  {[before |-> <<>>, after |-> <<>>], [before |-> <<"c","l","i","c","k"," ">>, after |-> <<>>],
   [before |-> <<"H","i"," ">>, after |-> <<" ","x">>], [before |-> <<"S","e","e","\n">>, after |-> <<"\n","B","y","e">>]}

InitInvariance ==
  /\ setup_database
  /\ no_activity
  /\ op = "none"
  /\ result = <<>>
  /\ \E around \in TextsAround, pair \in Interchangeable,
        preserve_structure \in BOOLEAN :
       call = [a |-> around.before \o pair[1] \o around.after,
               b |-> around.before \o pair[2] \o around.after,
               preserve_structure |-> preserve_structure]

\* normalizer.normalize(text, preserve_structure) for both texts
NormalizeBoth ==
  /\ op = "none"
  /\ op' = "normalize"
  /\ result' = [k \in 1..2 |->
                 normalize(IF k = 1 THEN call.a ELSE call.b,
                           call.preserve_structure)]
  /\ UNCHANGED <<call, tables, activity>>

NextInvariance == NormalizeBoth

SpecInvariance == InitInvariance /\ [][NextInvariance]_vars

\* C23: any two texts that differ only in their embedded URLs or embedded
\* email-address mentions normalize to the identical string, and
\* "click http://a.com/x?utm_source=1" and "click http://b.com/y" both
\* normalize to exactly "click [url]".
NormalizeUrlAndAddressInvariance ==
  op = "normalize" =>
    /\ result[1] = result[2]
    /\ call.a \in {<<"c","l","i","c","k"," ","h","t","t","p",":","/","/","a",".","c","o","m","/","x","?","u","t","m","_","s","o","u","r","c","e","=","1">>, <<"c","l","i","c","k"," ","h","t","t","p",":","/","/","b",".","c","o","m","/","y">>}
         => result[1] = <<"c","l","i","c","k"," ","[","u","r","l","]">>

\* C26: after normalize the output contains no substring beginning with
\* "http://" or "https://": neither a full URL nor a dangling partial URL
\* left behind by tracking-parameter stripping or by a later step.
NoUrlLeftAfterNormalize ==
  (op = "normalize" /\ Len(result) = 1) =>
    /\ FirstLit(result[1], 1, <<"h","t","t","p",":","/","/">>) = 0
    /\ FirstLit(result[1], 1, <<"h","t","t","p","s",":","/","/">>) = 0

\* The body holds a forward banner and, in the text it forwards, one more.
ParsedNestedForward ==
  /\ ParsedWithBanner
  /\ \E inner \in InnerBanners : FirstLit(call.after, 1, inner) > 0

\* C25: when a body contains several forward banners (nested forwards,
\* possibly of different client styles), parse_email_structure splits at
\* the first banner occurring in the body: new_content is the text before
\* that outermost banner and every later banner stays inside
\* quoted_content.
NestedForwardSplitsAtFirstBanner ==
  ParsedNestedForward =>
    /\ result[1].type = "forward"
    /\ result[1].new_content = NewContentBefore
    /\ \A inner \in InnerBanners :
         FirstLit(call.after, 1, inner) > 0
           => FirstLit(result[1].quoted_content, 1, inner) > 0

(***************************************************************************)
(* GmailServiceAccountExtractor.extract_emails: the runs of one extractor  *)
(* over the messages a query lists, one message after the other            *)
(***************************************************************************)
\* The messages of the mailbox the queries list: a message, the same text
\* sent again in another thread, another text, and a message whose text
\* body is null.
Mailbox ==
  {m \in Inbox : m.gmail_id \in {<<"g","1">>, <<"g","2">>, <<"g","5">>, <<"g","6">>}}

\* SELECT gmail_id FROM classified_emails
existing_ids == {classified_emails[k].gmail_id : k \in DOMAIN classified_emails}

\* extract_emails up to the loop: the query lists messages, those already
\* stored are filtered out, and the run ends at once when none is left.
extract_emails(messages) ==
  /\ op \in {"none", "extract_emails"}
  /\ emails_id_seq + Cardinality(messages) <= MaxCalls
  /\ new_messages' = {m \in messages : m.gmail_id \notin existing_ids}
  /\ processed_count' = 0
  /\ error_count' = 0
  /\ duplicate_count' = 0
  /\ IF new_messages' = {}
       THEN op' = "extract_emails" /\ result' = <<>>
       ELSE op' = "_get_message_ids" /\ result' = <<>>
  /\ UNCHANGED <<call, tables, lru_cache, threads, transactions>>

\* A run is in its loop.
InLoop == op \in {"_get_message_ids", "_save_email_to_db", "_extract_email_content"}

\* SELECT duplicate_group_id FROM classified_emails WHERE id = %s AND
\* duplicate_group_id IS NOT NULL, and fetchone()
fetchone(emails, email_id) ==
  \E k \in DOMAIN emails : emails[k].id = email_id /\ emails[k].duplicate_group_id # 0

\* The body of the loop for a message whose content was extracted.
ProcessMessage(msg) ==
  /\ InLoop
  /\ msg \in new_messages
  /\ new_messages' = new_messages \ {msg}
  /\ _save_email_to_db(msg)
  /\ IF result'[1] # 0
       THEN /\ duplicate_count' =
                 IF fetchone(classified_emails', result'[1])
                   THEN duplicate_count + 1 ELSE duplicate_count
            /\ processed_count' = processed_count + 1
       ELSE UNCHANGED <<duplicate_count, processed_count>>
  /\ UNCHANGED <<error_count, lru_cache, threads, transactions>>

\* The body of the loop for a message whose content was not extracted:
\* _extract_email_content raised, or returned None.
ExtractFailed(msg) ==
  /\ InLoop
  /\ msg \in new_messages
  /\ new_messages' = new_messages \ {msg}
  /\ op' = "_extract_email_content"
  /\ result' = <<0>>
  /\ \/ error_count' = error_count + 1
     \/ UNCHANGED error_count
  /\ UNCHANGED <<call, tables, processed_count, duplicate_count, lru_cache,
                 threads, transactions>>

\* The final summary: Total processed, Duplicates detected, Unique emails,
\* Errors.
Summary ==
  /\ InLoop
  /\ new_messages = {}
  /\ op' = "extract_emails"
  /\ result' = <<processed_count, duplicate_count,
                 processed_count - duplicate_count, error_count>>
  /\ UNCHANGED <<call, tables, activity>>

NextExtract ==
  \/ \E messages \in SUBSET Mailbox : extract_emails(messages)
  \/ \E msg \in Mailbox : ProcessMessage(msg)
  \/ \E msg \in Mailbox : ExtractFailed(msg)
  \/ Summary

SpecExtract == Init /\ [][NextExtract]_vars

\* The loop processed a message: its row was stored and counted.
Processed == processed_count' = processed_count + 1

\* The message the step saved joined a group that existed before the step.
JoinedExistingGroup ==
  \E k \in DOMAIN email_duplicate_groups :
    email_duplicate_groups'[k].member_count
      = email_duplicate_groups[k].member_count + 1

\* The summary of a run that stored every row of classified_emails.
SummaryOfOnlyRun ==
  /\ op = "extract_emails"
  /\ Len(result) = 4
  /\ result[1] = Len(classified_emails)

\* C27: extract_emails increments duplicate_count exactly for the processed
\* emails that joined an already existing duplicate group, so the "Unique
\* emails" of the summary, processed_count - duplicate_count, is the number
\* of processed emails that created a new group.
DuplicateCountCountsJoinedEmails ==
  /\ [][Processed =>
          (duplicate_count' = duplicate_count + 1 <=> JoinedExistingGroup)]_vars
  /\ [](SummaryOfOnlyRun => result[3] = Len(email_duplicate_groups))

\* What extract_emails counts: every processed email that has a duplicate
\* group, the emails that created their group included.
DuplicateCountCountsGroupedEmails ==
  [][Processed =>
       (duplicate_count' = duplicate_count + 1
          <=> fetchone(classified_emails', result'[1]))]_vars

(***************************************************************************)
(* _save_email_to_db run by two extractor processes at once, each on its   *)
(* own connection.  The tables hold the committed rows; a transaction      *)
(* reads them statement by statement (READ COMMITTED, the default of the   *)
(* database) and its own rows are seen by the other process when it        *)
(* commits.                                                                *)
(***************************************************************************)
Processes == {"p1", "p2"}

\* A connection with no transaction open.
Idle == [stage |-> "idle"]

InitConcurrent ==
  /\ setup_database
  /\ new_messages = {}
  /\ processed_count = 0
  /\ error_count = 0
  /\ duplicate_count = 0
  /\ lru_cache = <<>>
  /\ threads = <<>>
  /\ transactions = [p \in Processes |-> Idle]
  /\ call = <<>>
  /\ op = "none"
  /\ result = <<>>

\* The gmail_id values of the rows that open transactions inserted: an
\* INSERT of one of them waits for that transaction to end.
InFlight ==
  {transactions[p].email_data.gmail_id :
     p \in {q \in Processes : transactions[q].stage # "idle"}}

\* _save_email_to_db up to "if not result: return None": the fingerprints
\* and INSERT INTO classified_emails ... ON CONFLICT (gmail_id) DO NOTHING
\* RETURNING id
InsertEmail(p, email_data) ==
  /\ transactions[p].stage = "idle"
  /\ emails_id_seq < MaxCalls
  /\ email_data.gmail_id \notin InFlight
  /\ call' = email_data
  /\ emails_id_seq' = emails_id_seq + 1
  /\ \E fingerprints \in {generate_fingerprints(email_data)} :
       IF Conflict(classified_emails, email_data.gmail_id)
         THEN /\ op' = "_save_email_to_db"
              /\ result' = <<0>>
              /\ UNCHANGED transactions
         ELSE /\ op' = "INSERT INTO classified_emails"
              /\ result' = <<emails_id_seq + 1>>
              /\ transactions' =
                   [transactions EXCEPT ![p] =
                      [stage |-> IF fingerprints = Raised
                                   THEN "selected" ELSE "inserted",
                       email_data |-> email_data,
                       fingerprints |-> fingerprints,
                       email_id |-> emails_id_seq + 1,
                       existing_group |-> 0]]
  /\ UNCHANGED <<classified_emails, email_fingerprints_v2, email_duplicate_groups,
                 groups_id_seq, new_messages, processed_count, error_count,
                 duplicate_count, lru_cache, threads>>

\* SELECT edg.id, edg.primary_email_id FROM email_duplicate_groups edg WHERE
\* edg.content_fingerprint = %s, on the groups committed by now
SelectGroup(p) ==
  /\ transactions[p].stage = "inserted"
  /\ call' = transactions[p].email_data
  /\ op' = "SELECT FROM email_duplicate_groups"
  /\ transactions' =
       [transactions EXCEPT ![p].stage = "selected",
                            ![p].existing_group =
                              existing_group(
                                email_duplicate_groups,
                                _create_composite_fingerprint(
                                  transactions[p].fingerprints.full_content_hash,
                                  transactions[p].fingerprints.structure_hash))]
  /\ result' = <<transactions'[p].existing_group>>
  /\ UNCHANGED <<tables, new_messages, processed_count, error_count,
                 duplicate_count, lru_cache, threads>>

\* "if existing_group:" and its else, then self.db_conn.commit() and
\* "return email_id".  The UPDATE of member_count holds the row of the group
\* until the commit, so it counts on the committed member_count.
Commit(p) ==
  /\ transactions[p].stage = "selected"
  /\ call' = transactions[p].email_data
  /\ op' = "_save_email_to_db"
  /\ result' = <<transactions[p].email_id>>
  /\ IF transactions[p].fingerprints = Raised
       THEN /\ classified_emails' =
                 Append(classified_emails,
                        EmailRow(transactions[p].email_id, transactions[p].email_data,
                                 transactions[p].fingerprints))
            /\ UNCHANGED <<email_fingerprints_v2, email_duplicate_groups,
                           groups_id_seq>>
       ELSE AssignGroup(
              transactions[p].fingerprints, transactions[p].email_id,
              _create_composite_fingerprint(
                transactions[p].fingerprints.full_content_hash,
                transactions[p].fingerprints.structure_hash),
              Append(classified_emails,
                     EmailRow(transactions[p].email_id, transactions[p].email_data,
                              transactions[p].fingerprints)),
              transactions[p].existing_group)
  /\ transactions' = [transactions EXCEPT ![p] = Idle]
  /\ UNCHANGED <<emails_id_seq, new_messages, processed_count, error_count,
                 duplicate_count, lru_cache, threads>>

\* "except Exception: self.db_conn.rollback(); return None" of a transaction
\* that is open
Abort(p) ==
  /\ transactions[p].stage # "idle"
  /\ call' = transactions[p].email_data
  /\ op' = "rollback"
  /\ result' = <<0>>
  /\ transactions' = [transactions EXCEPT ![p] = Idle]
  /\ UNCHANGED <<tables, new_messages, processed_count, error_count,
                 duplicate_count, lru_cache, threads>>

NextConcurrent ==
  \/ \E p \in Processes, email_data \in Mailbox : InsertEmail(p, email_data)
  \/ \E p \in Processes : SelectGroup(p)
  \/ \E p \in Processes : Commit(p)
  \/ \E p \in Processes : Abort(p)

SpecConcurrent == InitConcurrent /\ [][NextConcurrent]_vars

\* C29: at most one duplicate group exists per content fingerprint: under
\* any interleaving of the _save_email_to_db transactions of concurrent
\* extractor processes, no two email_duplicate_groups rows have the same
\* content_fingerprint.
OneGroupPerContentFingerprint ==
  \A g, h \in DOMAIN email_duplicate_groups :
    email_duplicate_groups[g].content_fingerprint
      = email_duplicate_groups[h].content_fingerprint => g = h

(***************************************************************************)
(* EmailAliasResolver.resolve behind its lru_cache, called by two threads  *)
(* that share the resolver.  A call looks the address up; on a miss it     *)
(* computes resolve outside the cache and then stores the entry, unless    *)
(* the address was stored meanwhile.  A full cache drops its oldest entry. *)
(***************************************************************************)
Threads == {"t1", "t2"}

\* The number of entries the cache holds (maxsize).
CacheSize == 2

CachedAddresses ==
  {<<"F","i","r","s","t",".","L","a","s","t","+","p","r","o","m","o","@","g","m","a","i","l",".","c","o","m">>, <<"f","i","r","s","t","l","a","s","t","@","g","m","a","i","l",".","c","o","m">>, <<"B","o","b">>,
   <<"S","u","p",".","p","o","r","t","@","p","r","o","t","o","n","m","a","i","l",".","c","o","m">>}

\* A thread that is in no call of resolve.
NotCalling == [pc |-> "idle"]

InitCache ==
  /\ setup_database
  /\ new_messages = {}
  /\ processed_count = 0
  /\ error_count = 0
  /\ duplicate_count = 0
  /\ lru_cache = <<>>
  /\ threads = [t \in Threads |-> NotCalling]
  /\ transactions = <<>>
  /\ call = <<>>
  /\ op = "none"
  /\ result = <<>>

\* The value of the entry stored last, whatever its key.
most_recent(cache, key) == cache[Len(cache)].value

\* The value the cache holds for a key.
cache_get(cache, key) ==
  cache[CHOOSE k \in DOMAIN cache : cache[k].key = key].value

\* alias_resolver.resolve(email) up to the call of the function: a hit makes
\* the entry the most recent one and returns its value, a miss goes on to
\* compute.
CacheLookup(t, email) ==
  /\ threads[t].pc \in {"idle", "returned"}
  /\ call' = email
  /\ IF \E k \in DOMAIN lru_cache : lru_cache[k].key = email
       THEN /\ op' = "resolve"
            /\ result' = <<cache_get(lru_cache, email)>>
            /\ threads' = [threads EXCEPT ![t] =
                             [pc |-> "returned", email |-> email,
                              value |-> cache_get(lru_cache, email)]]
            /\ lru_cache' =
                 SelectSeq(lru_cache, LAMBDA e : e.key # email)
                   \o SelectSeq(lru_cache, LAMBDA e : e.key = email)
       ELSE /\ op' = "miss"
            /\ result' = <<>>
            /\ threads' = [threads EXCEPT ![t] = [pc |-> "miss", email |-> email]]
            /\ UNCHANGED lru_cache
  /\ UNCHANGED <<tables, new_messages, processed_count, error_count,
                 duplicate_count, transactions>>

\* The rest of the call after a miss: the function computes the value, the
\* entry is stored as the most recent one unless the key was stored
\* meanwhile (a full cache drops its oldest entry first), and the value is
\* returned.
CacheStore(t) ==
  /\ threads[t].pc = "miss"
  /\ call' = threads[t].email
  /\ op' = "resolve"
  /\ \E value \in {resolve(threads[t].email)} :
       /\ result' = <<value>>
       /\ threads' = [threads EXCEPT ![t] =
                        [pc |-> "returned", email |-> threads[t].email,
                         value |-> value]]
       /\ lru_cache' =
            IF \E k \in DOMAIN lru_cache : lru_cache[k].key = threads[t].email
              THEN lru_cache
            ELSE IF Len(lru_cache) >= CacheSize
              THEN Append(Tail(lru_cache), [key |-> threads[t].email, value |-> value])
            ELSE Append(lru_cache, [key |-> threads[t].email, value |-> value])
  /\ UNCHANGED <<tables, new_messages, processed_count, error_count,
                 duplicate_count, transactions>>

NextCache ==
  \/ \E t \in Threads, email \in CachedAddresses : CacheLookup(t, email)
  \/ \E t \in Threads : CacheStore(t)

SpecCache == InitCache /\ [][NextCache]_vars

\* C24: under any interleaving of the resolve calls of threads that share
\* the cache, misses that race on one address and evictions included, every
\* call returns the value an uncached resolve of its address returns.
CachedResolveReturnsUncachedValue ==
  /\ \A t \in Threads :
       threads[t].pc = "returned" => threads[t].value = resolve(threads[t].email)
  /\ op = "resolve" => result = <<resolve(call)>>

\* Two threads missed on one address: one has stored and returned it, the
\* other is still to compute it again, and the cache is full.
RacingMissesOnFullCache ==
  \E t, u \in Threads :
    /\ threads[t].pc = "returned"
    /\ threads[u].pc = "miss"
    /\ threads[u].email = threads[t].email
    /\ \E k \in DOMAIN lru_cache : lru_cache[k].key = threads[t].email
    /\ Len(lru_cache) = CacheSize

====
